---- MODULE Spec2Model ----
(***************************************************************************)
(* Invoice lifecycle and payment reconciliation of swiftspace: the store   *)
(* (invoices, payments, merchants, merchant_usage_monthly,                 *)
(* payments_ledger) and the edge functions that read and write it.  Every  *)
(* store call of a handler is one atomic step; what a handler computes     *)
(* between two store calls is folded into the later step.                  *)
(*                                                                         *)
(* Amounts are integers in millionths of a coin, prices are integers in   *)
(* USD cents per coin, times are integer ticks.                            *)
(***************************************************************************)
EXTENDS Integers, Sequences, FiniteSets, TLC

VARIABLES
    invoices,   \* table invoices: sequence of rows, created_at order = index = id
    payments,   \* table payments: sequence of rows, tx_hash unique
    merchants,  \* table merchants: function merchant id -> row
    usage,      \* table merchant_usage_monthly: function <<merchant, month>> -> gmv_cents
    ledger,     \* table payments_ledger: sequence of rows
    hooks,      \* evm-notify invocations
    receipts,   \* solana-receipt invocations
    sweeps,     \* confirmations invocations
    buys,       \* buy invocations
    wallets,    \* table wallets: function <<user, currency>> -> address
    env,        \* deployment secrets / flags
    now,        \* wall clock
    reads,      \* invoice-public invocations
    pays,       \* solana-pay invocations
    memoryCache,    \* lib/prices: the module's cache, lost on reload
    localStorage,   \* lib/prices: the item priceCache
    quotes,     \* lib/prices: what the calls of getUsdPrices returned
    bills       \* billing-webhook and create-subscription invocations

\* the state of the dashboard's page
browser == <<memoryCache, localStorage, quotes>>

vars == <<invoices, payments, merchants, usage, ledger, hooks, receipts, sweeps, buys,
          wallets, env, now, reads, pays, browser, bills>>

----
\* Bounds of the model

MaxInv == 2      \* invoice rows
MaxReq == 3      \* invocations of evm-notify, solana-receipt and confirmations together
MaxTip == 3      \* block heights the chain RPC may report
MaxBuys == 1     \* invocations of buy
MaxNow == 2      \* clock ticks
MaxDeliveries == 2  \* webhook deliveries that carry several events
MaxRows == 3     \* invoice rows the public read is tried on
MaxEvents == 3   \* events the webhook listener reads, over all deliveries

----
\* Values

NULL == "NULL"
NoInvoice == 0
NoStamp == 0

EvmNetworks == {"ethereum", "polygon", "bsc"}
MatchableStatuses == {"pending", "draft"}

\* README DDL: status check constraint
Statuses == {"draft", "pending", "paid", "confirmed", "expired"}

Merchants == {"m1"}
Addresses == {"a1"}
Signatures == {"g1"}

\* chain facts: the transaction hashes that are mined on the EVM chain, and the
\* signatures the Solana node can report as finalized
MinedHashes == {"h1"}
FinalSignatures == {"g1"}

\* rows an owner can insert: [currency, network, confirmations_required]
InvoiceKinds ==
    { [currency |-> "ETH",  network |-> "ethereum", confirmations_required |-> 3],
      [currency |-> "USDC", network |-> "solana",   confirmations_required |-> 1] }

\* one coin (or dollar) in millionths: SYMBOL_DECIMALS is 6 for every supported coin
Coin == 1000000

InvoiceAmounts == {Coin}

\* events a provider can deliver (after extractFields)
EventHashes == {"h1", ""}
EventsOf(amounts, hashes, kinds) ==
    { [to |-> a, txHash |-> h, amount |-> v, currency |-> k.currency, network |-> k.network] :
        a \in Addresses, h \in hashes, v \in amounts, k \in kinds }

\* full payments, and payments around the tolerance boundary
Events == EventsOf({Coin}, {"h1"}, InvoiceKinds)
BoundaryEvents ==
    EventsOf({990000, 994999, 995000, 996000}, {"h1"},
             {k \in InvoiceKinds : k.network \in EvmNetworks})

\* the body of a request that is rejected before it is parsed
Unread == [to |-> "", txHash |-> "", amount |-> 0, currency |-> "", network |-> ""]

Max(a, b) == IF a >= b THEN a ELSE b

MaxOf(S) == CHOOSE x \in S : \A y \in S : y <= x

Requests == Len(hooks) + Len(receipts) + Len(sweeps)

----
\* evm-notify

TolerancePerMille == 5

\* slip: no tolerance at all
AcceptsNoTolerance(amount, expected) == ~(amount < expected)

\* amount + expected * 0.005 < expected is the rejection test
Accepts(amount, expected) ==
    ~(amount * 1000 + expected * TolerancePerMille < expected * 1000)

\* slip: the order is ascending, the oldest matching invoice is taken
MatchInvoiceOldest(to, currency, network) ==
    LET S == { i \in 1..Len(invoices) :
                 /\ invoices[i].to_address = to
                 /\ invoices[i].currency = currency
                 /\ invoices[i].network = network
                 /\ invoices[i].status \in MatchableStatuses }
    IN  IF S = {} THEN NoInvoice ELSE CHOOSE x \in S : \A y \in S : x <= y

\* most recent pending/draft invoice with the event's address, currency and network
MatchInvoice(to, currency, network) ==
    LET S == { i \in 1..Len(invoices) :
                 /\ invoices[i].to_address = to
                 /\ invoices[i].currency = currency
                 /\ invoices[i].network = network
                 /\ invoices[i].status \in MatchableStatuses }
    IN  IF S = {} THEN NoInvoice ELSE MaxOf(S)

\* slip: an event without a hash is stored under the empty hash
PaymentKeyAsGiven(txHash) == txHash

\* tx_hash: txHash || crypto.randomUUID()
PaymentKey(txHash) ==
    IF txHash # "" THEN txHash ELSE "uuid" \o ToString(Len(payments) + 1)

\* payments.upsert(row, { onConflict: 'tx_hash' })
UpsertPayment(row) ==
    IF \E k \in 1..Len(payments) : payments[k].tx_hash = row.tx_hash
    THEN [k \in 1..Len(payments) |->
             IF payments[k].tx_hash = row.tx_hash THEN row ELSE payments[k]]
    ELSE Append(payments, row)

\* history: the same event with a transaction hash was delivered before, was accepted,
\* and that delivery has returned
Replayed(evt) ==
    /\ evt.txHash # ""
    /\ \E g \in 1..Len(hooks) :
           hooks[g].evt = evt /\ hooks[g].outcome = "accepted" /\ hooks[g].pc = "done"

\* WEBHOOK_SECRET ?? ''
ExpectedSecret == IF env.secret THEN "good" ELSE ""

\* slip: an unset secret is not tested
AuthorizedSkipsUnset(provided) == provided = ExpectedSecret

\* !expected || provided !== expected is the rejection test
Authorized(provided) == ExpectedSecret # "" /\ provided = ExpectedSecret

\* the loop is done with the current event: the next one, or the response
FinishEvent(hk) ==
    LET logged == [hk EXCEPT !.log = Append(@, hk.outcome)]
    IN  IF hk.idx < Len(hk.events)
        THEN [logged EXCEPT !.pc = "select"]
        ELSE [logged EXCEPT !.pc = "done", !.status = 200, !.processed = Len(hk.events)]

\* processEvent on event i, up to and including its select and tolerance test
StartEvent(hk, i) ==
    LET evt == hk.events[i]
        skip == evt.to = "" \/ evt.amount = 0 \/ evt.currency = ""
        inv == IF skip THEN NoInvoice ELSE MatchInvoice(evt.to, evt.currency, evt.network)
        expected == IF inv = NoInvoice THEN 0 ELSE invoices[inv].amount
        outcome == IF skip THEN "ignored"
                   ELSE IF inv = NoInvoice THEN "nomatch"
                   ELSE IF Accepts(evt.amount, expected) THEN "accepted"
                   ELSE "rejected"
        cur == [hk EXCEPT !.idx = i, !.evt = evt, !.inv = inv, !.expected = expected,
                          !.outcome = outcome, !.replay = Replayed(evt)]
    IN  IF outcome = "accepted" THEN [cur EXCEPT !.pc = "upsert"] ELSE FinishEvent(cur)

\* Deno.serve handler: the secret check, extractEvents, and processEvent on the first
\* event up to and including its select and tolerance test
HookDeliver(evts, provided) ==
    /\ Requests < MaxReq
    /\ LET hk == [header |-> provided, events |-> <<>>, idx |-> 0, evt |-> Unread,
                  inv |-> NoInvoice, expected |-> 0, outcome |-> "none",
                  replay |-> FALSE, pc |-> "done", status |-> 0, processed |-> 0,
                  log |-> <<>>]
       IN hooks' = Append(hooks,
              IF ~Authorized(provided)
              THEN [hk EXCEPT !.outcome = "unauthorized", !.status = 401]
              ELSE IF evts = <<>> THEN [hk EXCEPT !.status = 200]
              ELSE StartEvent([hk EXCEPT !.events = evts], 1))
    /\ UNCHANGED <<invoices, payments, merchants, usage, ledger, receipts, sweeps, buys, wallets, env, now, reads, pays, browser, bills>>

\* the loop reaches the next event: processEvent up to its select and tolerance test
HookSelect(h) ==
    /\ hooks[h].pc = "select"
    /\ hooks' = [hooks EXCEPT ![h] = StartEvent(@, @.idx + 1)]
    /\ UNCHANGED <<invoices, payments, merchants, usage, ledger, receipts, sweeps, buys, wallets, env, now, reads, pays, browser, bills>>

HookUpsertPayment(h) ==
    /\ hooks[h].pc = "upsert"
    /\ payments' = UpsertPayment(
           [invoice_id |-> hooks[h].inv, chain |-> hooks[h].evt.network,
            tx_hash |-> PaymentKey(hooks[h].evt.txHash),
            amount |-> hooks[h].evt.amount, confirmations |-> 0])
    /\ hooks' = [hooks EXCEPT ![h].pc = "update"]
    /\ UNCHANGED <<invoices, merchants, usage, ledger, receipts, sweeps, buys, wallets, env, now, reads, pays, browser, bills>>

\* slip: the update also writes what is still due as the amount
HookUpdateInvoiceSettles(h) ==
    /\ hooks[h].pc = "update"
    /\ invoices' = [invoices EXCEPT ![hooks[h].inv] =
           [@ EXCEPT !.status = "paid",
                     !.amount = Max(0, @ - hooks[h].evt.amount),
                     !.detected_tx_hash =
                         IF hooks[h].evt.txHash # "" THEN hooks[h].evt.txHash ELSE NULL,
                     !.detected_at = h]]
    /\ hooks' = [hooks EXCEPT ![h] = FinishEvent(@)]
    /\ UNCHANGED <<payments, merchants, usage, ledger, receipts, sweeps, buys, wallets, env, now, reads, pays, browser, bills>>

\* update({status:'paid', detected_tx_hash, detected_at}).eq('id', invoice.id);
\* new Date() of distinct invocations differ: the stamp is the invocation's index
HookUpdateInvoice(h) ==
    /\ hooks[h].pc = "update"
    /\ invoices' = [invoices EXCEPT ![hooks[h].inv] =
           [@ EXCEPT !.status = "paid",
                     !.detected_tx_hash =
                         IF hooks[h].evt.txHash # "" THEN hooks[h].evt.txHash ELSE NULL,
                     !.detected_at = h]]
    /\ hooks' = [hooks EXCEPT ![h] = FinishEvent(@)]
    /\ UNCHANGED <<payments, merchants, usage, ledger, receipts, sweeps, buys, wallets, env, now, reads, pays, browser, bills>>

\* slip: an exception in processEvent ends the delivery
HookThrowAborts(h) ==
    /\ hooks[h].pc \in {"upsert", "update"}
    /\ hooks' = [hooks EXCEPT ![h] =
           [@ EXCEPT !.outcome = "threw", !.pc = "done", !.status = 500]]
    /\ UNCHANGED <<invoices, payments, merchants, usage, ledger, receipts, sweeps, buys, wallets, env, now, reads, pays, browser, bills>>

\* the pending store call of processEvent throws: try { await processEvent(e) } catch (_) {}
HookThrow(h) ==
    /\ hooks[h].pc \in {"upsert", "update"}
    /\ hooks' = [hooks EXCEPT ![h] = FinishEvent([@ EXCEPT !.outcome = "threw"])]
    /\ UNCHANGED <<invoices, payments, merchants, usage, ledger, receipts, sweeps, buys, wallets, env, now, reads, pays, browser, bills>>

----
\* solana-receipt

\* [1-9A-HJ-NP-Za-km-z]
Base58Alphabet ==
    {"1", "2", "3", "4", "5", "6", "7", "8", "9",
     "A", "B", "C", "D", "E", "F", "G", "H", "J", "K", "L", "M", "N", "P", "Q", "R", "S",
     "T", "U", "V", "W", "X", "Y", "Z",
     "a", "b", "c", "d", "e", "f", "g", "h", "i", "j", "k", "m", "n", "o", "p", "q", "r",
     "s", "t", "u", "v", "w", "x", "y", "z"}

\* the strings a client can send as signature, each with its length and the
\* characters it is made of; g0 and g1 are signatures as wallets produce them
SignatureShape ==
    [v \in {"g0", "g1", "", "s31", "s32", "s100", "s101", "zero", "letterO", "letterl"} |->
        CASE v = ""        -> [len |-> 0,   chars |-> {}]
          [] v = "s31"     -> [len |-> 31,  chars |-> {"5", "K", "q"}]
          [] v = "s32"     -> [len |-> 32,  chars |-> {"5", "K", "q"}]
          [] v = "s100"    -> [len |-> 100, chars |-> {"5", "K", "q"}]
          [] v = "s101"    -> [len |-> 101, chars |-> {"5", "K", "q"}]
          [] v = "zero"    -> [len |-> 88,  chars |-> {"5", "K", "q", "0"}]
          [] v = "letterO" -> [len |-> 88,  chars |-> {"5", "K", "q", "O"}]
          [] v = "letterl" -> [len |-> 88,  chars |-> {"5", "K", "q", "l"}]
          [] OTHER         -> [len |-> 88,  chars |-> {"5", "K", "q", "z", "1"}]]

\* slip: the alphabet is tested, the length is not
IsBase58AnyLength(v) == SignatureShape[v].chars \subseteq Base58Alphabet

\* /^[1-9A-HJ-NP-Za-km-z]{32,100}$/.test(v)
IsBase58(v) ==
    /\ SignatureShape[v].len >= 32
    /\ SignatureShape[v].len <= 100
    /\ SignatureShape[v].chars \subseteq Base58Alphabet

\* isUuid: a token is the id of the row it was generated for; 0 is a string that
\* the pattern refuses
IsUuid(t) == t # 0

\* handler up to and including the select by public_token
ReceiptSubmit(t, signature) ==
    /\ Requests < MaxReq
    /\ LET found == t \in 1..Len(invoices)
           pending == found /\ invoices[t].status = "pending"
       IN receipts' = Append(receipts,
              IF ~IsUuid(t) \/ ~IsBase58(signature)
              THEN [t |-> t, signature |-> signature, pc |-> "done", status |-> 400]
              ELSE
              [t |-> t, signature |-> signature,
               pc |-> IF pending THEN "update" ELSE "done",
               status |-> IF ~found THEN 404 ELSE IF pending THEN 0 ELSE 200])
    /\ UNCHANGED <<invoices, payments, merchants, usage, ledger, hooks, sweeps, buys, wallets, env, now, reads, pays, browser, bills>>

\* update({status:'paid', detected_tx_hash: signature}).eq('public_token', t)
ReceiptUpdate(r) ==
    /\ receipts[r].pc = "update"
    /\ invoices' = [invoices EXCEPT ![receipts[r].t] =
           [@ EXCEPT !.status = "paid", !.detected_tx_hash = receipts[r].signature]]
    /\ receipts' = [receipts EXCEPT ![r].pc = "done", ![r].status = 200]
    /\ UNCHANGED <<payments, merchants, usage, ledger, hooks, sweeps, buys, wallets, env, now, reads, pays, browser, bills>>

----
\* confirmations

BatchLimit == 50
MonthLen == 2

FirstOfMonth(t) == t - (t % MonthLen)

\* coins with a quote id that are not pinned to 1.00
QuotedSymbols == {"SOL"}
PinnedSymbols == {"USDC", "USDT"}

\* what the quote service may answer, in cents per coin; 0 is no quote
QuoteAnswers == {0, 150}

\* slip: the stablecoins are quoted by the service like any other coin
GetUsdPriceAlwaysFetches(symbol, answer) ==
    IF symbol \in PinnedSymbols \cup QuotedSymbols THEN answer ELSE 0

\* getUsdPrice: cents per coin, 0 for null
GetUsdPrice(symbol, answer) ==
    IF symbol \in PinnedSymbols THEN 100
    ELSE IF symbol \in QuotedSymbols THEN answer
    ELSE 0

\* Math.round(amountCrypto * price * 100); the whole coins are multiplied apart
\* from the fraction to keep the products small
UsdCents(amount, price) ==
    (amount \div Coin) * price + (2 * (amount % Coin) * price + Coin) \div (2 * Coin)

DefaultMerchant ==
    [plan_tier |-> "trial", trial_ends_at |-> NoStamp,
     stripe_customer_id |-> "", stripe_subscription_id |-> ""]

\* merchants.upsert({ id }, { onConflict: 'id' })
EnsureMerchant(m) ==
    IF m \in DOMAIN merchants THEN merchants ELSE (m :> DefaultMerchant) @@ merchants

\* the rows that match eq('status','paid').not('detected_tx_hash','is',null)
PaidRows ==
    SelectSeq(invoices, LAMBDA inv : inv.status = "paid" /\ inv.detected_tx_hash # NULL)

Without(s, k) == SubSeq(s, 1, k - 1) \o SubSeq(s, k + 1, Len(s))

RECURSIVE SubSeqsOfLen(_, _)
SubSeqsOfLen(s, n) ==
    IF Len(s) <= n THEN {s}
    ELSE UNION { SubSeqsOfLen(Without(s, k), n) : k \in 1..Len(s) }

\* select ... limit(50), without ORDER BY: any 50 of the matching rows
PaidBatches == SubSeqsOfLen(PaidRows, BatchLimit)

\* a handler that has returned: its locals are gone, its response stays; counted
\* is the invoices whose payments update the invocation has issued
Returned(status, checked) ==
    [batch |-> <<>>, tip |-> 0, idx |-> 0, txBlock |-> 0, confirmations |-> 0,
     usdCents |-> 0, monthStr |-> 0, next |-> 0, pc |-> "done", status |-> status,
     checked |-> checked, counted |-> {}]

\* the loop moves to the next invoice of the batch
NextItem(sw) ==
    IF sw.idx + 1 > Len(sw.batch)
    THEN [Returned(200, Len(sw.batch)) EXCEPT !.counted = sw.counted]
    ELSE [sw EXCEPT !.idx = @ + 1, !.pc = "loop"]

\* update({status:'confirmed', confirmed_at}).eq('id', inv.id)
Confirm(id, stamp) ==
    [invoices EXCEPT ![id] = [@ EXCEPT !.status = "confirmed", !.confirmed_at = stamp]]

\* update({confirmations}).eq('invoice_id', inv.id)
SetConfirmations(id, n) ==
    [k \in 1..Len(payments) |->
        IF payments[k].invoice_id = id
        THEN [payments[k] EXCEPT !.confirmations = n] ELSE payments[k]]

\* handler up to the loop: batch select, then the chain tip (eth_blockNumber may throw)
SweepStart(tip, tipFails, batch) ==
    /\ Requests < MaxReq
    /\ IF env.rpc THEN TRUE ELSE tip = 0 /\ ~tipFails
    /\ batch \in PaidBatches
    /\ LET failed == batch # <<>> /\ tipFails
       IN sweeps' = Append(sweeps,
              IF failed THEN Returned(500, 0)
              ELSE IF batch = <<>> THEN Returned(200, 0)
              ELSE [batch |-> batch, tip |-> tip, idx |-> 1, txBlock |-> 0,
                    confirmations |-> 0, usdCents |-> 0, monthStr |-> 0, next |-> 0,
                    pc |-> "loop", status |-> 0, checked |-> 0, counted |-> {}])
    /\ UNCHANGED <<invoices, payments, merchants, usage, ledger, hooks, receipts, buys, wallets, env, now, reads, pays, browser, bills>>

\* solana branch: getSignatureStatuses, then the status update when finalized
SweepSolana(s, finalized) ==
    /\ sweeps[s].pc = "loop"
    /\ LET inv == sweeps[s].batch[sweeps[s].idx] IN
       /\ inv.network = "solana"
       /\ finalized => inv.detected_tx_hash \in FinalSignatures
       /\ IF finalized
          THEN /\ invoices' = Confirm(inv.id, s)
               /\ sweeps' = [sweeps EXCEPT ![s].pc = "usage"]
          ELSE /\ invoices' = invoices
               /\ sweeps' = [sweeps EXCEPT ![s] = NextItem(@)]
    /\ UNCHANGED <<payments, merchants, usage, ledger, hooks, receipts, buys, wallets, env, now, reads, pays, browser, bills>>

\* EVM branch: eth_getTransactionReceipt (block 0: no receipt; may throw), then
\* the first store call of the branch taken
SweepEvm(s, block, receiptFails) ==
    /\ sweeps[s].pc = "loop"
    /\ LET inv == sweeps[s].batch[sweeps[s].idx]
           confirmations == Max(0, sweeps[s].tip - block + 1)
           required == inv.confirmations_required
       IN
       /\ inv.network \in EvmNetworks
       /\ block # 0 => inv.detected_tx_hash \in MinedHashes
       /\ IF ~env.rpc
          THEN /\ block = 0 /\ ~receiptFails
               /\ sweeps' = [sweeps EXCEPT ![s] = NextItem(@)]
               /\ UNCHANGED <<invoices, payments>>
          ELSE IF receiptFails
          THEN /\ block = 0
               /\ sweeps' = [sweeps EXCEPT ![s] = Returned(500, 0)]
               /\ UNCHANGED <<invoices, payments>>
          ELSE IF block = 0
          THEN /\ sweeps' = [sweeps EXCEPT ![s] = NextItem(@)]
               /\ UNCHANGED <<invoices, payments>>
          ELSE IF confirmations >= required
          THEN /\ invoices' = Confirm(inv.id, s)
               /\ sweeps' = [sweeps EXCEPT ![s].pc = "payments", ![s].txBlock = block,
                                           ![s].confirmations = confirmations]
               /\ UNCHANGED payments
          ELSE /\ payments' = SetConfirmations(inv.id, confirmations)
               /\ sweeps' = [sweeps EXCEPT ![s] =
                                 NextItem([@ EXCEPT !.txBlock = block,
                                                    !.confirmations = confirmations,
                                                    !.counted = @ \cup {inv.id}])]
               /\ UNCHANGED invoices
    /\ UNCHANGED <<merchants, usage, ledger, hooks, receipts, buys, wallets, env, now, reads, pays, browser, bills>>

\* slip: the counter is not written once the invoice is confirmed
SweepPaymentsSkipped(s) ==
    /\ sweeps[s].pc = "payments"
    /\ sweeps' = [sweeps EXCEPT ![s].pc = "usage"]
    /\ UNCHANGED <<invoices, payments, merchants, usage, ledger, hooks, receipts, buys, wallets, env, now, reads, pays, browser, bills>>

\* EVM branch, confirmed: the payments update that follows the status update
SweepPayments(s) ==
    /\ sweeps[s].pc = "payments"
    /\ payments' = SetConfirmations(sweeps[s].batch[sweeps[s].idx].id, sweeps[s].confirmations)
    /\ sweeps' = [sweeps EXCEPT ![s].pc = "usage",
                                ![s].counted = @ \cup {sweeps[s].batch[sweeps[s].idx].id}]
    /\ UNCHANGED <<invoices, merchants, usage, ledger, hooks, receipts, buys, wallets, env, now, reads, pays, browser, bills>>

\* recordUsage up to and including the merchants upsert
RecordUsageMerchant(s, answer) ==
    /\ sweeps[s].pc = "usage"
    /\ LET inv == sweeps[s].batch[sweeps[s].idx]
           price == GetUsdPrice(inv.currency, answer)
       IN IF inv.user_id = "" \/ inv.amount = 0 \/ inv.currency = "" \/ price = 0
          THEN /\ sweeps' = [sweeps EXCEPT ![s] = NextItem(@)]
               /\ UNCHANGED merchants
          ELSE /\ merchants' = EnsureMerchant(inv.user_id)
               /\ sweeps' = [sweeps EXCEPT ![s].pc = "usage_read",
                                           ![s].usdCents = UsdCents(inv.amount, price)]
    /\ UNCHANGED <<invoices, payments, usage, ledger, hooks, receipts, buys, wallets, env, now, reads, pays, browser, bills>>

\* recordUsage: monthStr from new Date(), select gmv_cents of the month,
\* next = prev + usdCents
RecordUsageRead(s) ==
    /\ sweeps[s].pc = "usage_read"
    /\ LET monthStr == FirstOfMonth(now)
           key == <<sweeps[s].batch[sweeps[s].idx].user_id, monthStr>>
           prev == IF key \in DOMAIN usage THEN usage[key] ELSE 0
       IN sweeps' = [sweeps EXCEPT ![s].pc = "usage_write",
                                   ![s].monthStr = monthStr,
                                   ![s].next = prev + sweeps[s].usdCents]
    /\ UNCHANGED <<invoices, payments, merchants, usage, ledger, hooks, receipts, buys, wallets, env, now, reads, pays, browser, bills>>

\* recordUsage: merchant_usage_monthly.upsert({merchant_id, month, gmv_cents: next})
RecordUsageWrite(s) ==
    /\ sweeps[s].pc = "usage_write"
    /\ LET key == <<sweeps[s].batch[sweeps[s].idx].user_id, sweeps[s].monthStr>>
       IN usage' = (key :> sweeps[s].next) @@ usage
    /\ sweeps' = [sweeps EXCEPT ![s].pc = "ledger"]
    /\ UNCHANGED <<invoices, payments, merchants, ledger, hooks, receipts, buys, wallets, env, now, reads, pays, browser, bills>>

\* recordUsage: payments_ledger.insert; created_at defaults to now()
RecordUsageLedger(s) ==
    /\ sweeps[s].pc = "ledger"
    /\ LET inv == sweeps[s].batch[sweeps[s].idx]
       IN ledger' = Append(ledger,
              [merchant_id |-> inv.user_id, invoice_id |-> inv.id,
               currency |-> inv.currency, amount_crypto |-> inv.amount,
               amount_usd_cents |-> sweeps[s].usdCents, created_at |-> now])
    /\ sweeps' = [sweeps EXCEPT ![s] = NextItem(@)]
    /\ UNCHANGED <<invoices, payments, merchants, usage, hooks, receipts, buys, wallets, env, now, reads, pays, browser, bills>>

----
\* invoice rows inserted by their owner

InsertInvoice(m, amount, kind, to) ==
    /\ Len(invoices) < MaxInv
    /\ invoices' = Append(invoices,
           [id |-> Len(invoices) + 1, user_id |-> m, amount |-> amount,
            currency |-> kind.currency, network |-> kind.network, to_address |-> to,
            confirmations_required |-> kind.confirmations_required,
            status |-> "pending", detected_tx_hash |-> NULL,
            detected_at |-> NoStamp, confirmed_at |-> NoStamp, reference |-> NULL])
    /\ UNCHANGED <<payments, merchants, usage, ledger, hooks, receipts, sweeps, buys, wallets, env, now, reads, pays, browser, bills>>

----
\* buy (invoice issuance), with and without the processing fee

GmvCap == 1000000

SupportedCurrencies == {"SOL", "USDC", "USDT"}
Tiers == {"trial", "basic_50", "pro_100", "past_due", "canceled"}

\* DEFAULT_NETWORK[c] || null
DefaultNetwork(c) == IF c \in SupportedCurrencies THEN "solana" ELSE NULL

\* requests: at most one of m, a, c is invalid
BuyRequests ==
    { q \in [variant : {"buy", "fee"}, m : {"m1", ""}, a : {0, Coin}, c : {"USDC", "BTC"},
             u : {"", "https://app"}, usd : BOOLEAN] :
        Cardinality({f \in {"m", "a", "c"} :
            \/ f = "m" /\ q.m = ""
            \/ f = "a" /\ q.a = 0
            \/ f = "c" /\ q.c = "BTC"}) <= 1 }

\* parseFloat(url.searchParams.get('a') || ''): what is not a number parses to NaN,
\* "Infinity" parses to Infinity; both are kept apart from every amount in millionths
NaN == -1
Infinity == 2000 * Coin

\* !a
Falsy(a) == a = 0 \/ a = NaN

\* isNaN(a)
IsNaN(a) == a = NaN

\* a <= 0, false of NaN
NotPositive(a) == a # NaN /\ a <= 0

\* if (!a || isNaN(a) || a <= 0) return badRequest
InvalidAmount(a) == Falsy(a) \/ IsNaN(a) \/ NotPositive(a)

\* requests of which exactly one of m, a, c is not a merchant id, a finite positive
\* amount or a supported currency
BadRequests ==
    { q \in [variant : {"buy", "fee"}, m : {"m1", ""},
             a : {0, -Coin, NaN, Infinity, -Infinity, Coin}, c : {"USDC", "BTC", ""},
             u : {"", "https://app"}, usd : BOOLEAN] :
        Cardinality({f \in {"m", "a", "c"} :
            \/ f = "m" /\ q.m = ""
            \/ f = "a" /\ q.a # Coin
            \/ f = "c" /\ q.c # "USDC"}) = 1 }

\* what the quote service may answer to buy, in cents per coin; 0 is a failed fetch
BuyQuoteAnswers == {0, 100, 125}

\* slip: the tier is tested before the trial
CheckMerchantTierFirst(enabled, merchantId, now_) ==
    IF ~enabled THEN "allow"
    ELSE IF merchantId = "" THEN "allow"
    ELSE IF merchantId \notin DOMAIN merchants THEN "allow"
    ELSE LET tier == merchants[merchantId].plan_tier
             trialEnds == merchants[merchantId].trial_ends_at
         IN IF tier = "pro_100" THEN "allow"
            ELSE IF tier = "canceled" \/ tier = "past_due" THEN "entitlement_blocked"
            ELSE IF trialEnds # NoStamp /\ trialEnds > now_ THEN "allow"
            ELSE IF tier = "basic_50" \/ tier = "trial" THEN "usage"
            ELSE "allow"

\* assertMerchantEntitled up to the usage lookup: "usage" when the lookup is needed
CheckMerchant(enabled, merchantId, now_) ==
    IF ~enabled THEN "allow"
    ELSE IF merchantId = "" THEN "allow"
    ELSE IF merchantId \notin DOMAIN merchants THEN "allow"
    ELSE LET tier == merchants[merchantId].plan_tier
             trialEnds == merchants[merchantId].trial_ends_at
         IN IF trialEnds # NoStamp /\ trialEnds > now_ THEN "allow"
            ELSE IF tier = "pro_100" THEN "allow"
            ELSE IF tier = "canceled" \/ tier = "past_due" THEN "entitlement_blocked"
            ELSE IF tier = "basic_50" \/ tier = "trial" THEN "usage"
            ELSE "allow"

\* slip: the cap itself is still allowed
CheckUsageAbove(gmvCents) == IF gmvCents > GmvCap THEN "upgrade_required" ELSE "allow"

\* assertMerchantEntitled: gmvCents >= 1_000_000
CheckUsage(gmvCents) == IF gmvCents >= GmvCap THEN "upgrade_required" ELSE "allow"

\* the response to a blocked request: a 402 is turned into a redirect when u is given
Blocked(q, code) ==
    IF q.u # ""
    THEN [q EXCEPT !.pc = "done", !.entitlement = code, !.status = 302,
                   !.location = "billing=upgrade_required"]
    ELSE [q EXCEPT !.pc = "done", !.entitlement = code, !.status = 402, !.code = code]

Failed(q, status) == [q EXCEPT !.pc = "done", !.status = status]

RECURSIVE GCD(_, _)
GCD(a, b) == IF b = 0 THEN a ELSE GCD(b, a % b)

\* IEEE 754 binary64: significant bits of a Number
DoubleBits == 53

\* the expansion of a fraction is kept in digits of 8 bits
DigitBits == 8

\* the first n bits after the binary point of r / q (0 <= r < q), as digits of 8 bits
\* of which the last holds the bits that are left over, and what is left of r
RECURSIVE Expand(_, _, _)
Expand(r, q, n) ==
    IF n = 0 THEN [digits |-> <<>>, rem |-> r]
    ELSE IF n <= DigitBits
    THEN [digits |-> <<(r * 2^n) \div q>>, rem |-> (r * 2^n) % q]
    ELSE LET rest == Expand((r * 2^DigitBits) % q, q, n - DigitBits)
         IN  [digits |-> <<(r * 2^DigitBits) \div q>> \o rest.digits, rem |-> rest.rem]

\* bits of the last digit of an expansion of n bits
LastWidth(n) == ((n - 1) % DigitBits) + 1

\* zeros after the binary point of r / q before its first 1 (0 < r < q)
RECURSIVE LeadingZeros(_, _)
LeadingZeros(r, q) == IF 2 * r >= q THEN 0 ELSE 1 + LeadingZeros(2 * r, q)

RECURSIVE BitLen(_)
BitLen(i) == IF i = 0 THEN 0 ELSE 1 + BitLen(i \div 2)

\* one unit in the last place added to an expansion whose last digit has w bits
RECURSIVE Increment(_, _)
Increment(digits, w) ==
    IF digits = <<>> THEN [digits |-> <<>>, carry |-> 1]
    ELSE LET front == SubSeq(digits, 1, Len(digits) - 1)
             last == digits[Len(digits)]
         IN  IF last + 1 < 2^w
             THEN [digits |-> front \o <<last + 1>>, carry |-> 0]
             ELSE LET up == Increment(front, DigitBits)
                  IN  [digits |-> up.digits \o <<0>>, carry |-> up.carry]

\* x > y for expansions of one length
DigitsGreater(x, y) ==
    \E k \in 1..Len(x) : x[k] > y[k] /\ \A j \in 1..(k - 1) : x[j] = y[j]

\* the Number p / q (p, q > 0): the quotient rounded to 53 significant bits, ties to
\* even, as its integer part and the expansion it keeps after the binary point
DoubleQuotient(p, q) ==
    LET int == p \div q
        r == p % q
        kept == IF int > 0 THEN DoubleBits - BitLen(int)
                ELSE IF r = 0 THEN 0
                ELSE LeadingZeros(r, q) + DoubleBits
        e == Expand(r, q, kept)
        guard == 2 * e.rem >= q
        sticky == 2 * e.rem # q /\ e.rem # 0
        odd == IF kept = 0 THEN int % 2 = 1 ELSE e.digits[Len(e.digits)] % 2 = 1
        up == Increment(e.digits, LastWidth(kept))
    IN  IF guard /\ (sticky \/ odd)
        THEN [int |-> int + up.carry, digits |-> up.digits, kept |-> kept]
        ELSE [int |-> int, digits |-> e.digits, kept |-> kept]

\* the Number x is at least p / q
DoubleAtLeast(x, p, q) ==
    LET int == p \div q
        e == Expand(p % q, q, x.kept)
    IN  \/ x.int > int
        \/ x.int = int /\ DigitsGreater(x.digits, e.digits)
        \/ x.int = int /\ x.digits = e.digits /\ e.rem = 0

\* x.toFixed(6) for the Number x = a / b coins: the n for which n / 10^6 - x is
\* closest to zero, in millionths
ToFixed6(a, b) ==
    LET x == DoubleQuotient(a, b)
        floor == (a * Coin) \div b
    IN  IF DoubleAtLeast(x, 2 * floor + 1, 2 * Coin) THEN floor + 1 ELSE floor

\* parseFloat((a / usdPrice).toFixed(6)), for a in millionths of a dollar and a price
\* in cents that a Number holds exactly
UsdToCrypto(a, price) ==
    IF a = Infinity THEN Infinity
    ELSE LET g == GCD(a, price * 10000)
         IN  ToFixed6(a \div g, (price * 10000) \div g)

\* a Number below 2^16 as digits of 8 bits: two for its integer part, then its
\* expansion with the last digit filled up with zeros
WholeDigits(x) ==
    <<x.int \div 2^DigitBits, x.int % 2^DigitBits>> \o
    [k \in 1..Len(x.digits) |->
        IF k = Len(x.digits) THEN x.digits[k] * 2^(DigitBits - LastWidth(x.kept))
        ELSE x.digits[k]]

\* the sum of the products of digits that fall on place k of x * y
RECURSIVE Column(_, _, _, _)
Column(x, y, k, i) ==
    IF i > Len(x) THEN 0
    ELSE (IF k - i \in 1..Len(y) THEN x[i] * y[k - i] ELSE 0) + Column(x, y, k, i + 1)

\* the digits of x * y from place k upwards, carry coming in from below
RECURSIVE Carried(_, _, _, _)
Carried(x, y, k, carry) ==
    IF k = 0 THEN <<>>
    ELSE LET sum == Column(x, y, k, 1) + carry
         IN  Carried(x, y, k - 1, sum \div 2^DigitBits) \o <<sum % 2^DigitBits>>

\* zeros before the first 1 of an expansion that is not zero
RECURSIVE ZerosBefore(_)
ZerosBefore(d) ==
    IF d[1] = 0 THEN DigitBits + ZerosBefore(Tail(d)) ELSE DigitBits - BitLen(d[1])

\* the Number x * y: the exact product rounded to 53 significant bits, ties to even
DoubleProduct(x, y) ==
    LET z == Carried(WholeDigits(x), WholeDigits(y),
                     Len(WholeDigits(x)) + Len(WholeDigits(y)), 0)
        int == ((z[1] * 2^DigitBits + z[2]) * 2^DigitBits + z[3]) * 2^DigitBits + z[4]
        frac == SubSeq(z, 5, Len(z))
        zero == \A k \in 1..Len(frac) : frac[k] = 0
        kept == IF int > 0 THEN DoubleBits - BitLen(int)
                ELSE IF zero THEN 0
                ELSE ZerosBefore(frac) + DoubleBits
        n == (kept + DigitBits - 1) \div DigitBits
        w == LastWidth(kept)
        padded == frac \o [k \in 1..(n + 1) |-> 0]
        digits == [k \in 1..n |->
                      IF k = n THEN padded[k] \div 2^(DigitBits - w) ELSE padded[k]]
        rest == SubSeq(padded, n + 1, Len(padded))
        left == IF n = 0 \/ w = DigitBits THEN rest
                ELSE <<(padded[n] % 2^(DigitBits - w)) * 2^w>> \o rest
        guard == left[1] >= 2^(DigitBits - 1)
        sticky == \/ left[1] % 2^(DigitBits - 1) # 0
                  \/ \E k \in 2..Len(left) : left[k] # 0
        odd == IF n = 0 THEN int % 2 = 1 ELSE digits[n] % 2 = 1
        up == Increment(digits, w)
    IN  IF guard /\ (sticky \/ odd)
        THEN [int |-> int + up.carry, digits |-> up.digits, kept |-> kept]
        ELSE [int |-> int, digits |-> digits, kept |-> kept]

\* slip: the fee is taken off the amount
WithFeeDeducted(amount) ==
    IF amount = Infinity THEN Infinity ELSE (2 * amount * 99 + 100) \div 200

\* parseFloat((amountCrypto * 1.01).toFixed(6)): the product of the Numbers nearest
\* to the amount and to 1.01, then toFixed as in ToFixed6
WithFee(amount) ==
    IF amount = Infinity THEN Infinity
    ELSE LET x == DoubleProduct(DoubleQuotient(amount, Coin), DoubleQuotient(101, 100))
             floor == (amount * 101) \div 100
         IN  IF DoubleAtLeast(x, 2 * floor + 1, 2 * Coin) THEN floor + 1 ELSE floor

\* JSON.stringify of the insert payload writes a number that is not finite as null,
\* which the amount column (numeric not null) refuses
NullAmount(amount) == amount = Infinity \/ amount = NaN

\* handler up to and including the merchants select of assertMerchantEntitled
BuyStart(req) ==
    /\ Len(buys) < MaxBuys
    /\ LET q == [variant |-> req.variant, m |-> req.m, a |-> req.a, c |-> req.c,
                 u |-> req.u, usd |-> req.usd,
                 pc |-> "wallet", entitlement |-> "unchecked",
                 found |-> FALSE, tier |-> "", trialEnds |-> NoStamp, nowRead |-> 0,
                 gmvCents |-> 0, toAddress |-> "", usdPrice |-> 0,
                 status |-> 0, code |-> "", location |-> "", token |-> NoInvoice]
           checked == [q EXCEPT !.found = env.subs /\ req.m \in DOMAIN merchants,
                                !.tier = IF env.subs /\ req.m \in DOMAIN merchants
                                         THEN merchants[req.m].plan_tier ELSE "",
                                !.trialEnds = IF env.subs /\ req.m \in DOMAIN merchants
                                              THEN merchants[req.m].trial_ends_at
                                              ELSE NoStamp,
                                !.nowRead = IF env.subs THEN now ELSE 0]
           verdict == CheckMerchant(env.subs, req.m, now)
       IN buys' = Append(buys,
              IF req.m = "" \/ InvalidAmount(req.a) \/ req.c = "" \/ req.c \notin SupportedCurrencies
              THEN Failed(q, 400)
              ELSE IF req.variant = "fee" THEN q
              ELSE IF verdict = "allow" THEN [checked EXCEPT !.entitlement = "allow"]
              ELSE IF verdict = "usage" THEN [checked EXCEPT !.pc = "usage"]
              ELSE Blocked(checked, verdict))
    /\ UNCHANGED <<invoices, payments, merchants, usage, ledger, hooks, receipts, sweeps,
                   wallets, env, now, reads, pays, browser, bills>>

\* assertMerchantEntitled: the merchant_usage_monthly select and the cap test
BuyUsage(b) ==
    /\ buys[b].pc = "usage"
    /\ LET key == <<buys[b].m, FirstOfMonth(buys[b].nowRead)>>
           gmvCents == IF key \in DOMAIN usage THEN usage[key] ELSE 0
           verdict == CheckUsage(gmvCents)
           q == [buys[b] EXCEPT !.gmvCents = gmvCents]
       IN buys' = [buys EXCEPT ![b] =
              IF verdict = "allow" THEN [q EXCEPT !.pc = "wallet", !.entitlement = "allow"]
              ELSE Blocked(q, verdict)]
    /\ UNCHANGED <<invoices, payments, merchants, usage, ledger, hooks, receipts, sweeps,
                   wallets, env, now, reads, pays, browser, bills>>

\* slip: a merchant without a wallet for the currency is not refused
BuyWalletUnchecked(b) ==
    /\ buys[b].pc = "wallet"
    /\ LET key == <<buys[b].m, buys[b].c>>
       IN buys' = [buys EXCEPT ![b] =
              [@ EXCEPT !.pc = "insert",
                        !.toAddress = IF key \in DOMAIN wallets THEN wallets[key] ELSE ""]]
    /\ UNCHANGED <<invoices, payments, merchants, usage, ledger, hooks, receipts, sweeps,
                   wallets, env, now, reads, pays, browser, bills>>

\* the wallets select
BuyWallet(b) ==
    /\ buys[b].pc = "wallet"
    /\ LET key == <<buys[b].m, buys[b].c>>
       IN buys' = [buys EXCEPT ![b] =
              IF key \notin DOMAIN wallets THEN Failed(@, 400)
              ELSE [@ EXCEPT !.pc = "insert", !.toAddress = wallets[key]]]
    /\ UNCHANGED <<invoices, payments, merchants, usage, ledger, hooks, receipts, sweeps,
                   wallets, env, now, reads, pays, browser, bills>>

\* the USD conversion, the fee, the invoices insert and the response
BuyInsert(b, answer, insertFails) ==
    /\ buys[b].pc = "insert"
    /\ Len(invoices) < MaxInv
    /\ LET q == buys[b]
           amountCrypto == IF q.usd /\ answer # 0 THEN UsdToCrypto(q.a, answer) ELSE q.a
           amount == IF q.variant = "fee" THEN WithFee(amountCrypto) ELSE amountCrypto
           id == Len(invoices) + 1
       IN IF q.usd /\ answer = 0
          THEN /\ buys' = [buys EXCEPT ![b] = Failed([@ EXCEPT !.usdPrice = answer], 502)]
               /\ UNCHANGED invoices
          ELSE IF insertFails \/ NullAmount(amount)
          THEN /\ buys' = [buys EXCEPT ![b] =
                     Failed([@ EXCEPT !.usdPrice = IF q.usd THEN answer ELSE 0], 500)]
               /\ UNCHANGED invoices
          ELSE /\ invoices' = Append(invoices,
                     [id |-> id, user_id |-> q.m, amount |-> amount, currency |-> q.c,
                      network |-> DefaultNetwork(q.c), to_address |-> q.toAddress,
                      confirmations_required |-> 1,
                      status |-> "pending", detected_tx_hash |-> NULL,
                      detected_at |-> NoStamp, confirmed_at |-> NoStamp, reference |-> NULL])
               /\ buys' = [buys EXCEPT ![b] =
                     [@ EXCEPT !.pc = "done", !.token = id,
                               !.usdPrice = IF q.usd THEN answer ELSE 0,
                               !.status = IF q.u # "" THEN 302 ELSE 200,
                               !.location =
                                   IF q.u = "" THEN ""
                                   ELSE IF ~q.usd THEN "t=token"
                                   ELSE IF q.variant = "fee"
                                   THEN "t=token&usd=1&v=a&vt=total"
                                   ELSE "t=token&usd=1&v=a"]]
    /\ UNCHANGED <<payments, merchants, usage, ledger, hooks, receipts, sweeps,
                   wallets, env, now, reads, pays, browser, bills>>

Tick ==
    /\ now < MaxNow
    /\ now' = now + 1
    /\ UNCHANGED <<invoices, payments, merchants, usage, ledger, hooks, receipts, sweeps,
                   buys, wallets, env, reads, pays, browser, bills>>

----
\* lib/prices: getUsdPrices and its two caches. A quote is named by the tick at
\* which the service gave it.

TTL_MS == 30000

\* one tick of the clock, in milliseconds
TickMs == 20 * 1000

DateNow == now * TickMs

PriceSymbols == {"ETH", "BTC"}

NoPrices == [s \in {} |-> 0]

\* null
NoCache == [set |-> FALSE, at |-> 0, prices |-> NoPrices]

\* { ...a, ...b }
Spread(a, b) ==
    [s \in DOMAIN a \cup DOMAIN b |-> IF s \in DOMAIN b THEN b[s] ELSE a[s]]

\* useCache: the requested symbols' values of a cache stamped within the TTL
UseCache(cache, uniq) ==
    IF cache.set /\ DateNow - cache.at <= TTL_MS
    THEN [s \in uniq \cap DOMAIN cache.prices |-> cache.prices[s]]
    ELSE NoPrices

\* getUsdPrices(symbols): fails: the fetch throws; answered: the ids for which the
\* service's reply holds a number
GetUsdPrices(uniq, fails, answered) ==
    LET cached == Spread(UseCache(memoryCache, uniq), UseCache(localStorage, uniq))
        missing == uniq \ DOMAIN cached
        merged == Spread(cached, [s \in answered |-> now])
        newCache == [set |-> TRUE, at |-> DateNow,
                     prices |-> Spread(memoryCache.prices, merged)]
    IN /\ Len(quotes) < MaxReq
       /\ answered \subseteq missing
       /\ fails => answered = {}
       /\ missing = {} => ~fails
       /\ IF missing = {} \/ fails
          THEN /\ quotes' = Append(quotes, [at |-> now, asked |-> uniq, prices |-> cached])
               /\ UNCHANGED <<memoryCache, localStorage>>
          ELSE /\ quotes' = Append(quotes, [at |-> now, asked |-> uniq, prices |-> merged])
               /\ memoryCache' = newCache
               /\ localStorage' = newCache
       /\ UNCHANGED <<invoices, payments, merchants, usage, ledger, hooks, receipts,
                      sweeps, buys, wallets, env, now, reads, pays, bills>>

\* the page is loaded again: the module starts with memoryCache = null
Reload ==
    /\ memoryCache # NoCache
    /\ memoryCache' = NoCache
    /\ UNCHANGED <<invoices, payments, merchants, usage, ledger, hooks, receipts,
                   sweeps, buys, wallets, env, now, reads, pays, localStorage, quotes,
                   bills>>

----
\* invoice-public

VisibleStatuses == {"pending", "paid", "confirmed"}

\* SQL equality on a nullable column: never true of a null
SqlEq(a, b) == a # NULL /\ b # NULL /\ a = b

\* slip: the reference is always compared with eq
SiblingFilterEqOnly(row, data) ==
    /\ row.user_id = data.user_id
    /\ row.amount = data.amount
    /\ row.status \in VisibleStatuses
    /\ SqlEq(row.reference, data.reference)

\* eq user_id, eq amount, in status, and is null / eq on the reference
SiblingFilter(row, data) ==
    /\ row.user_id = data.user_id
    /\ row.amount = data.amount
    /\ row.status \in VisibleStatuses
    /\ IF data.reference = NULL THEN row.reference = NULL
       ELSE SqlEq(row.reference, data.reference)

\* order('created_at', { ascending: false })
RECURSIVE NewestFirst(_)
NewestFirst(S) == IF S = {} THEN <<>> ELSE <<MaxOf(S)>> \o NewestFirst(S \ {MaxOf(S)})

\* the siblings of the response: currency and public_token of the rows that match
SiblingsOf(data) ==
    LET order == NewestFirst({ j \in 1..Len(invoices) : SiblingFilter(invoices[j], data) })
    IN  [k \in 1..Len(order) |->
            [currency |-> invoices[order[k]].currency, public_token |-> order[k]]]

\* handler up to and including the select by public_token; token 0 is not a uuid
PublicRead(t) ==
    /\ reads' = Append(reads,
           [t |-> t, siblings |-> <<>>,
            invoice |-> IF t \in 1..Len(invoices) THEN t ELSE NoInvoice,
            pc |-> IF t \in 1..Len(invoices) THEN "siblings" ELSE "done",
            status |-> IF t = 0 THEN 400 ELSE IF t \in 1..Len(invoices) THEN 0 ELSE 404])
    /\ UNCHANGED <<invoices, payments, merchants, usage, ledger, hooks, receipts, sweeps, buys, wallets, env, now, pays, browser, bills>>

\* the sibling query and the response
PublicSiblings(r) ==
    /\ reads[r].pc = "siblings"
    /\ reads' = [reads EXCEPT ![r] =
           [@ EXCEPT !.siblings = SiblingsOf(invoices[reads[r].invoice]),
                     !.pc = "done", !.status = 200]]
    /\ UNCHANGED <<invoices, payments, merchants, usage, ledger, hooks, receipts, sweeps, buys, wallets, env, now, pays, browser, bills>>

----
\* solana-pay

LamportDecimals == 9

\* mintInfo.decimals of the USDC and USDT mints
MintDecimals == 6

\* the digits of n as a string of len digits
DigitsOf(n, len) == [k \in 1..len |-> (n \div 10^(len - k)) % 10]

\* a digit string without its trailing zeros
RECURSIVE StripZeros(_)
StripZeros(d) ==
    IF d = <<>> \/ d[Len(d)] # 0 THEN d ELSE StripZeros(SubSeq(d, 1, Len(d) - 1))

\* the number a digit string writes
RECURSIVE DigitsValue(_)
DigitsValue(d) ==
    IF d = <<>> THEN 0 ELSE 10 * DigitsValue(SubSeq(d, 1, Len(d) - 1)) + d[Len(d)]

\* String(amount).split('.'), for a positive amount in millionths
AmountString(amount) ==
    [i |-> amount \div Coin, f |-> StripZeros(DigitsOf(amount % Coin, 6))]

\* slip: the fraction is not padded to the decimals of the unit
ToMinorUnitsUnpadded(amount, decimals) ==
    LET str == AmountString(amount)
    IN  str.i * 10^Len(str.f) + DigitsValue(str.f)

\* toMinorUnits: BigInt(i + (f + '0'.repeat(decimals)).slice(0, decimals))
ToMinorUnits(amount, decimals) ==
    LET str == AmountString(amount)
        frac == SubSeq(str.f \o [k \in 1..decimals |-> 0], 1, decimals)
    IN  str.i * 10^decimals + DigitsValue(frac)

\* the response of solana-pay; the instructions are those of the transaction it returns
PayResponse(t, buyer, view, status, instructions) ==
    [t |-> t, buyer |-> buyer, view |-> view, status |-> status,
     instructions |-> instructions]

\* the handler: its only store call is the select by public_token; token 0 is not a
\* uuid; rpcFails: a call to the Solana node throws; ataExists: the merchant has a
\* token account for the mint
PayRequest(t, buyer, view, rpcFails, ataExists) ==
    /\ pays' = Append(pays,
           IF t = 0 THEN PayResponse(t, buyer, view, 400, <<>>)
           ELSE IF buyer = "" THEN PayResponse(t, buyer, view, IF view THEN 200 ELSE 400, <<>>)
           ELSE IF t \notin 1..Len(invoices) THEN PayResponse(t, buyer, view, 404, <<>>)
           ELSE LET inv == invoices[t] IN
                IF inv.network # "solana" THEN PayResponse(t, buyer, view, 400, <<>>)
                ELSE IF inv.currency = "SOL"
                THEN IF ToMinorUnits(inv.amount, LamportDecimals) <= 0
                     THEN PayResponse(t, buyer, view, 400, <<>>)
                     ELSE IF rpcFails THEN PayResponse(t, buyer, view, 500, <<>>)
                     ELSE PayResponse(t, buyer, view, 200,
                              <<[kind |-> "transfer", from |-> buyer, to |-> inv.to_address,
                                 minor |-> ToMinorUnits(inv.amount, LamportDecimals),
                                 decimals |-> LamportDecimals]>>)
                ELSE IF inv.currency \in {"USDC", "USDT"}
                THEN IF ~env.mint \/ rpcFails THEN PayResponse(t, buyer, view, 500, <<>>)
                     ELSE IF ToMinorUnits(inv.amount, MintDecimals) <= 0
                     THEN PayResponse(t, buyer, view, 400, <<>>)
                     ELSE PayResponse(t, buyer, view, 200,
                              (IF ataExists THEN <<>>
                               ELSE <<[kind |-> "create_account", from |-> buyer,
                                       to |-> inv.to_address, minor |-> 0,
                                       decimals |-> MintDecimals]>>)
                              \o <<[kind |-> "transfer", from |-> buyer, to |-> inv.to_address,
                                    minor |-> ToMinorUnits(inv.amount, MintDecimals),
                                    decimals |-> MintDecimals]>>)
                ELSE PayResponse(t, buyer, view, 400, <<>>))
    /\ UNCHANGED <<invoices, payments, merchants, usage, ledger, hooks, receipts, sweeps,
                   buys, wallets, env, now, reads, browser, bills>>

----
Init ==
    /\ invoices = <<>>
    /\ payments = <<>>
    /\ merchants = <<>>
    /\ usage = <<>>
    /\ ledger = <<>>
    /\ hooks = <<>>
    /\ receipts = <<>>
    /\ sweeps = <<>>
    /\ buys = <<>>
    /\ wallets = <<>>
    /\ env \in [rpc : BOOLEAN, secret : BOOLEAN, subs : {FALSE}]
    /\ now = 0
    /\ reads = <<>>
    /\ pays = <<>>
    /\ memoryCache = NoCache
    /\ localStorage = NoCache
    /\ quotes = <<>>
    /\ bills = <<>>

Next ==
    \/ \E m \in Merchants, a \in InvoiceAmounts, k \in InvoiceKinds, to \in Addresses :
           InsertInvoice(m, a, k, to)
    \/ \E e \in Events, p \in {"good", "bad"} : HookDeliver(<<e>>, p)
    \/ \E h \in 1..Len(hooks) : HookUpsertPayment(h)
    \/ \E h \in 1..Len(hooks) : HookUpdateInvoice(h)
    \/ \E t \in 1..MaxInv, g \in Signatures : ReceiptSubmit(t, g)
    \/ \E r \in 1..Len(receipts) : ReceiptUpdate(r)
    \/ \E tip \in 0..MaxTip, f \in BOOLEAN, batch \in PaidBatches :
           SweepStart(tip, f, batch)
    \/ \E s \in 1..Len(sweeps), f \in BOOLEAN : SweepSolana(s, f)
    \/ \E s \in 1..Len(sweeps), b \in 0..MaxTip, f \in BOOLEAN : SweepEvm(s, b, f)
    \/ \E s \in 1..Len(sweeps) : SweepPayments(s)
    \/ \E s \in 1..Len(sweeps), q \in QuoteAnswers : RecordUsageMerchant(s, q)
    \/ \E s \in 1..Len(sweeps) : RecordUsageRead(s)
    \/ \E s \in 1..Len(sweeps) : RecordUsageWrite(s)
    \/ \E s \in 1..Len(sweeps) : RecordUsageLedger(s)

Spec == Init /\ [][Next]_vars

\* the webhook listener alone, with payments around the tolerance boundary
NextHook ==
    \/ \E m \in Merchants, a \in InvoiceAmounts, k \in InvoiceKinds, to \in Addresses :
           InsertInvoice(m, a, k, to)
    \/ \E e \in BoundaryEvents, p \in {"good", "bad"} : HookDeliver(<<e>>, p)
    \/ \E h \in 1..Len(hooks) : HookUpsertPayment(h)
    \/ \E h \in 1..Len(hooks) : HookUpdateInvoice(h)

SpecHook == Init /\ [][NextHook]_vars

\* issuance alone, from any billing state of the merchant
InitBuy ==
    /\ invoices = <<>>
    /\ payments = <<>>
    /\ merchants \in {<<>>} \cup
           { ("m1" :> [DefaultMerchant EXCEPT !.plan_tier = t, !.trial_ends_at = e]) :
               t \in Tiers, e \in {NoStamp, 1} }
    /\ usage \in {<<>>} \cup
           { (<<"m1", 0>> :> g) : g \in {GmvCap - 1, GmvCap, GmvCap + 1} }
    /\ usage # <<>> => "m1" \in DOMAIN merchants
    /\ ledger = <<>>
    /\ hooks = <<>>
    /\ receipts = <<>>
    /\ sweeps = <<>>
    /\ buys = <<>>
    /\ wallets \in {<<>>, (<<"m1", "USDC">> :> "a1")}
    /\ env \in [rpc : {TRUE}, secret : {TRUE}, subs : BOOLEAN]
    /\ now = 0
    /\ reads = <<>>
    /\ pays = <<>>
    /\ memoryCache = NoCache
    /\ localStorage = NoCache
    /\ quotes = <<>>
    /\ bills = <<>>

NextBuy ==
    \/ \E req \in BuyRequests : BuyStart(req)
    \/ \E b \in 1..Len(buys) : BuyUsage(b)
    \/ \E b \in 1..Len(buys) : BuyWallet(b)
    \/ \E b \in 1..Len(buys), q \in BuyQuoteAnswers, f \in BOOLEAN : BuyInsert(b, q, f)
    \/ Tick

SpecBuy == InitBuy /\ [][NextBuy]_vars

\* issuance of requests with one input that must be refused
NextValidate ==
    \/ \E req \in BadRequests : BuyStart(req)
    \/ \E b \in 1..Len(buys) : BuyUsage(b)
    \/ \E b \in 1..Len(buys) : BuyWallet(b)
    \/ \E b \in 1..Len(buys), q \in BuyQuoteAnswers, f \in BOOLEAN : BuyInsert(b, q, f)

SpecValidate == InitBuy /\ [][NextValidate]_vars

\* issuance with amounts in USD and in coins, for a merchant with wallets and no
\* billing record: amounts and quotes are values a Number holds exactly
ConvertRequests ==
    [variant : {"buy", "fee"}, m : {"m1"}, a : {750000, Coin, 10 * Coin},
     c : {"SOL", "USDC"}, u : {"", "https://app"}, usd : BOOLEAN]

ConvertAnswers == {0, 100, 14275, 16000}

InitConvert ==
    /\ invoices = <<>>
    /\ payments = <<>>
    /\ merchants = <<>>
    /\ usage = <<>>
    /\ ledger = <<>>
    /\ hooks = <<>>
    /\ receipts = <<>>
    /\ sweeps = <<>>
    /\ buys = <<>>
    /\ wallets \in {(<<"m1", "USDC">> :> "a1"),
                    (<<"m1", "SOL">> :> "a1") @@ (<<"m1", "USDC">> :> "a1")}
    /\ env \in [rpc : {TRUE}, secret : {TRUE}, subs : BOOLEAN]
    /\ now = 0
    /\ reads = <<>>
    /\ pays = <<>>
    /\ memoryCache = NoCache
    /\ localStorage = NoCache
    /\ quotes = <<>>
    /\ bills = <<>>

NextConvert ==
    \/ \E req \in ConvertRequests : BuyStart(req)
    \/ \E b \in 1..Len(buys) : BuyWallet(b)
    \/ \E b \in 1..Len(buys), q \in ConvertAnswers, f \in BOOLEAN : BuyInsert(b, q, f)

SpecConvert == InitConvert /\ [][NextConvert]_vars

\* the same, and amounts in coins whose total with the fee falls halfway between
\* two millionths
FeeRequests ==
    ConvertRequests \cup
    [variant : {"buy", "fee"}, m : {"m1"}, a : {150, 250, 1750050},
     c : {"USDC"}, u : {""}, usd : {FALSE}]

NextFee ==
    \/ \E req \in FeeRequests : BuyStart(req)
    \/ \E b \in 1..Len(buys) : BuyWallet(b)
    \/ \E b \in 1..Len(buys), q \in ConvertAnswers, f \in BOOLEAN : BuyInsert(b, q, f)

SpecFee == InitConvert /\ [][NextFee]_vars

\* deliveries of several events, each underpaid or paid in full; the header is
\* missing, wrong or right
DeliveredKinds == {k \in InvoiceKinds : k.network \in EvmNetworks}
DeliveredEvents == EventsOf({990000, Coin}, {"h1"}, DeliveredKinds)
Headers == {"", "bad", "good"}

\* extractEvents: the bodies of at most MaxEvents events
Bodies == UNION { [1..n -> DeliveredEvents] : n \in 0..MaxEvents }

RECURSIVE ReceivedUpTo(_)
ReceivedUpTo(h) == IF h = 0 THEN 0 ELSE Len(hooks[h].events) + ReceivedUpTo(h - 1)

\* events the listener has read so far
Received == ReceivedUpTo(Len(hooks))

NextDelivery ==
    \/ \E m \in Merchants, a \in InvoiceAmounts, k \in DeliveredKinds, to \in Addresses :
           InsertInvoice(m, a, k, to)
    \/ \E body \in Bodies, p \in Headers :
           /\ Len(hooks) < MaxDeliveries
           /\ Received + Len(body) <= MaxEvents
           /\ HookDeliver(body, p)
    \/ \E h \in 1..Len(hooks) : HookSelect(h)
    \/ \E h \in 1..Len(hooks) : HookUpsertPayment(h)
    \/ \E h \in 1..Len(hooks) : HookUpdateInvoice(h)
    \/ \E h \in 1..Len(hooks) : HookThrow(h)

SpecDelivery == Init /\ [][NextDelivery]_vars

\* end to end on a block-confirmation network: invoices for 0.05 coin, transfers of
\* 0.0505 coin reported by the webhook, then sweeps
PaidKinds ==
    { [currency |-> "ETH",  network |-> "ethereum", confirmations_required |-> 3],
      [currency |-> "USDT", network |-> "ethereum", confirmations_required |-> 3] }
PaidAmount == 50000
PaidEvents == EventsOf({50500}, {"h1"}, PaidKinds)

NextPaid ==
    \/ \E m \in Merchants, k \in PaidKinds, to \in Addresses :
           InsertInvoice(m, PaidAmount, k, to)
    \/ \E e \in PaidEvents, p \in {"good", "bad"} : HookDeliver(<<e>>, p)
    \/ \E h \in 1..Len(hooks) : HookUpsertPayment(h)
    \/ \E h \in 1..Len(hooks) : HookUpdateInvoice(h)
    \/ \E tip \in 0..MaxTip, f \in BOOLEAN, batch \in PaidBatches :
           SweepStart(tip, f, batch)
    \/ \E s \in 1..Len(sweeps), b \in 0..MaxTip, f \in BOOLEAN : SweepEvm(s, b, f)
    \/ \E s \in 1..Len(sweeps) : SweepPayments(s)
    \/ \E s \in 1..Len(sweeps), q \in QuoteAnswers : RecordUsageMerchant(s, q)
    \/ \E s \in 1..Len(sweeps) : RecordUsageRead(s)
    \/ \E s \in 1..Len(sweeps) : RecordUsageWrite(s)
    \/ \E s \in 1..Len(sweeps) : RecordUsageLedger(s)

SpecPaid == Init /\ [][NextPaid]_vars

\* the public read alone, over a table of invoices of one intent and near misses:
\* row i is the invoice of the intent in its i-th currency, in any status, or differs
\* from it in the merchant, the amount or the reference
PublicCurrencies == <<"SOL", "USDC", "USDT", "ETH", "BTC", "LTC">>

PublicRow(i, m, a, ref, st) ==
    [id |-> i, user_id |-> m, amount |-> a, currency |-> PublicCurrencies[i],
     network |-> "solana", to_address |-> "a1", confirmations_required |-> 1,
     status |-> st, detected_tx_hash |-> NULL,
     detected_at |-> NoStamp, confirmed_at |-> NoStamp, reference |-> ref]

RowVariants(i, ref) ==
    { PublicRow(i, "m1", Coin, ref, st) : st \in Statuses }
    \cup { PublicRow(i, "m2", Coin, ref, "pending"), PublicRow(i, "m1", 2 * Coin, ref, "pending") }
    \cup { PublicRow(i, "m1", Coin, other, "pending") : other \in {NULL, "r1", "r2"} \ {ref} }

RECURSIVE Tables(_, _)
Tables(n, ref) ==
    IF n = 0 THEN {<<>>}
    ELSE { Append(t, row) : t \in Tables(n - 1, ref), row \in RowVariants(n, ref) }

InitPublic ==
    /\ invoices \in Tables(MaxRows, NULL) \cup Tables(MaxRows, "r1")
    /\ payments = <<>>
    /\ merchants = <<>>
    /\ usage = <<>>
    /\ ledger = <<>>
    /\ hooks = <<>>
    /\ receipts = <<>>
    /\ sweeps = <<>>
    /\ buys = <<>>
    /\ wallets = <<>>
    /\ env = [rpc |-> FALSE, secret |-> TRUE, subs |-> FALSE]
    /\ now = 0
    /\ reads = <<>>
    /\ pays = <<>>
    /\ memoryCache = NoCache
    /\ localStorage = NoCache
    /\ quotes = <<>>
    /\ bills = <<>>

NextPublic ==
    \/ \E t \in 0..(MaxRows + 1) : reads = <<>> /\ PublicRead(t)
    \/ \E r \in 1..Len(reads) : PublicSiblings(r)

SpecPublic == InitPublic /\ [][NextPublic]_vars

\* the transaction builder alone, over a table of invoices in any status: amounts of
\* one minor unit, of a fraction with a trailing zero and of whole coins, on Solana
\* in a currency it supports or not, and on another network
MaxPayRows == 1

PayKinds ==
    { [currency |-> "SOL", network |-> "solana"], [currency |-> "USDC", network |-> "solana"],
      [currency |-> "USDT", network |-> "solana"], [currency |-> "BTC", network |-> "solana"],
      [currency |-> "ETH", network |-> "ethereum"] }

PayAmounts == {0, 1, 1500000, 2 * Coin}

PayRows(i) ==
    { [id |-> i, user_id |-> "m1", amount |-> a, currency |-> k.currency,
       network |-> k.network, to_address |-> "a1", confirmations_required |-> 1,
       status |-> st, detected_tx_hash |-> NULL,
       detected_at |-> NoStamp, confirmed_at |-> NoStamp, reference |-> NULL] :
        a \in PayAmounts, k \in PayKinds, st \in Statuses }

RECURSIVE PayTables(_)
PayTables(n) ==
    IF n = 0 THEN {<<>>}
    ELSE { Append(t, row) : t \in PayTables(n - 1), row \in PayRows(n) }

InitPay ==
    /\ invoices \in UNION { PayTables(n) : n \in 1..MaxPayRows }
    /\ payments = <<>>
    /\ merchants = <<>>
    /\ usage = <<>>
    /\ ledger = <<>>
    /\ hooks = <<>>
    /\ receipts = <<>>
    /\ sweeps = <<>>
    /\ buys = <<>>
    /\ wallets = <<>>
    /\ env \in [rpc : {FALSE}, secret : {TRUE}, subs : {FALSE}, mint : BOOLEAN]
    /\ now = 0
    /\ reads = <<>>
    /\ pays = <<>>
    /\ memoryCache = NoCache
    /\ localStorage = NoCache
    /\ quotes = <<>>
    /\ bills = <<>>

NextPay ==
    \E t \in 0..(MaxPayRows + 1), buyer \in {"", "b1"}, view, rpcFails, ataExists \in BOOLEAN :
        pays = <<>> /\ PayRequest(t, buyer, view, rpcFails, ataExists)

SpecPay == InitPay /\ [][NextPay]_vars

\* the reconciler alone on a Solana-only deployment (no EVM RPC URL), over invoices
\* that client receipts have made paid
PaidBySignature(i, signature) ==
    [id |-> i, user_id |-> "m1", amount |-> Coin, currency |-> "USDC",
     network |-> "solana", to_address |-> "a1", confirmations_required |-> 1,
     status |-> "paid", detected_tx_hash |-> signature,
     detected_at |-> NoStamp, confirmed_at |-> NoStamp, reference |-> NULL]

InitSweep ==
    /\ invoices \in { [i \in 1..n |-> PaidBySignature(i, "g1")] : n \in 1..MaxInv }
    /\ payments = <<>>
    /\ merchants = <<>>
    /\ usage = <<>>
    /\ ledger = <<>>
    /\ hooks = <<>>
    /\ receipts = <<>>
    /\ sweeps = <<>>
    /\ buys = <<>>
    /\ wallets = <<>>
    /\ env \in [rpc : {FALSE}, secret : {TRUE}, subs : {FALSE}]
    /\ now = 0
    /\ reads = <<>>
    /\ pays = <<>>
    /\ memoryCache = NoCache
    /\ localStorage = NoCache
    /\ quotes = <<>>
    /\ bills = <<>>

NextSweep ==
    \/ \E tip \in 0..MaxTip, f \in BOOLEAN, batch \in PaidBatches :
           SweepStart(tip, f, batch)
    \/ \E s \in 1..Len(sweeps), f \in BOOLEAN : SweepSolana(s, f)
    \/ \E s \in 1..Len(sweeps), q \in QuoteAnswers : RecordUsageMerchant(s, q)
    \/ \E s \in 1..Len(sweeps) : RecordUsageRead(s)
    \/ \E s \in 1..Len(sweeps) : RecordUsageWrite(s)
    \/ \E s \in 1..Len(sweeps) : RecordUsageLedger(s)

SpecSweep == InitSweep /\ [][NextSweep]_vars

\* sweeps, one after the other, over paid Solana invoices in the three currencies
\* that have a quote id; the quote service answers or fails
QuotedPaid(i, currency) == [PaidBySignature(i, "g1") EXCEPT !.currency = currency]

InitQuote ==
    /\ invoices \in { [i \in 1..Len(c) |-> QuotedPaid(i, c[i])] :
                        c \in UNION { [1..n -> PinnedSymbols \cup QuotedSymbols] :
                                         n \in 1..MaxInv } }
    /\ payments = <<>>
    /\ merchants = <<>>
    /\ usage = <<>>
    /\ ledger = <<>>
    /\ hooks = <<>>
    /\ receipts = <<>>
    /\ sweeps = <<>>
    /\ buys = <<>>
    /\ wallets = <<>>
    /\ env \in [rpc : {FALSE}, secret : {TRUE}, subs : {FALSE}]
    /\ now = 0
    /\ reads = <<>>
    /\ pays = <<>>
    /\ memoryCache = NoCache
    /\ localStorage = NoCache
    /\ quotes = <<>>
    /\ bills = <<>>

NextQuote ==
    \/ \E batch \in PaidBatches :
           /\ \A s \in 1..Len(sweeps) : sweeps[s].pc = "done"
           /\ SweepStart(0, FALSE, batch)
    \/ \E s \in 1..Len(sweeps), f \in BOOLEAN : SweepSolana(s, f)
    \/ \E s \in 1..Len(sweeps), q \in QuoteAnswers : RecordUsageMerchant(s, q)
    \/ \E s \in 1..Len(sweeps) : RecordUsageRead(s)
    \/ \E s \in 1..Len(sweeps) : RecordUsageWrite(s)
    \/ \E s \in 1..Len(sweeps) : RecordUsageLedger(s)

SpecQuote == InitQuote /\ [][NextQuote]_vars

\* the webhook listener over tables of invoices to one address, for half a coin or
\* a coin, in every status; transfers of either amount on either EVM network
MatchedAmounts == {Coin \div 2, Coin}

MatchedRow(i, amount, status) ==
    [id |-> i, user_id |-> "m1", amount |-> amount, currency |-> "ETH",
     network |-> "ethereum", to_address |-> "a1", confirmations_required |-> 3,
     status |-> status, detected_tx_hash |-> NULL,
     detected_at |-> NoStamp, confirmed_at |-> NoStamp, reference |-> NULL]

MatchedEvents ==
    EventsOf(MatchedAmounts, {"h1"},
             { [currency |-> "ETH", network |-> n, confirmations_required |-> 3] :
                 n \in {"ethereum", "polygon"} })

InitMatch ==
    /\ invoices \in { [i \in 1..Len(r) |-> MatchedRow(i, r[i][1], r[i][2])] :
                        r \in UNION { [1..n -> MatchedAmounts \X Statuses] :
                                         n \in 1..MaxInv } }
    /\ payments = <<>>
    /\ merchants = <<>>
    /\ usage = <<>>
    /\ ledger = <<>>
    /\ hooks = <<>>
    /\ receipts = <<>>
    /\ sweeps = <<>>
    /\ buys = <<>>
    /\ wallets = <<>>
    /\ env = [rpc |-> TRUE, secret |-> TRUE, subs |-> FALSE]
    /\ now = 0
    /\ reads = <<>>
    /\ pays = <<>>
    /\ memoryCache = NoCache
    /\ localStorage = NoCache
    /\ quotes = <<>>
    /\ bills = <<>>

NextMatch ==
    \/ \E e \in MatchedEvents :
           /\ Len(hooks) < MaxDeliveries
           /\ HookDeliver(<<e>>, "good")
    \/ \E h \in 1..Len(hooks) : HookUpsertPayment(h)
    \/ \E h \in 1..Len(hooks) : HookUpdateInvoice(h)

SpecMatch == InitMatch /\ [][NextMatch]_vars

\* the webhook listener with transfers that carry a hash and transfers that do not
KeyedEvents == EventsOf({Coin}, EventHashes, DeliveredKinds)

NextKeys ==
    \/ \E m \in Merchants, a \in InvoiceAmounts, k \in DeliveredKinds, to \in Addresses :
           InsertInvoice(m, a, k, to)
    \/ \E e \in KeyedEvents : HookDeliver(<<e>>, "good")
    \/ \E h \in 1..Len(hooks) : HookUpsertPayment(h)
    \/ \E h \in 1..Len(hooks) : HookUpdateInvoice(h)

SpecKeys == Init /\ [][NextKeys]_vars

\* sweeps that may overlap, over paid Solana invoices, while the month changes
NextUsage ==
    \/ \E batch \in PaidBatches :
           /\ Len(sweeps) < MaxDeliveries
           /\ SweepStart(0, FALSE, batch)
    \/ \E s \in 1..Len(sweeps) : SweepSolana(s, TRUE)
    \/ \E s \in 1..Len(sweeps), q \in QuoteAnswers : RecordUsageMerchant(s, q)
    \/ \E s \in 1..Len(sweeps) : RecordUsageRead(s)
    \/ \E s \in 1..Len(sweeps) : RecordUsageWrite(s)
    \/ \E s \in 1..Len(sweeps) : RecordUsageLedger(s)
    \/ Tick

SpecUsage == InitSweep /\ [][NextUsage]_vars

\* client receipts with well-formed and malformed tokens and signatures, over
\* tables of Solana invoices in every status
SubmittedSignatures == DOMAIN SignatureShape \ {"g0"}

SubmittedRow(i, status) ==
    [id |-> i, user_id |-> "m1", amount |-> Coin, currency |-> "USDC",
     network |-> "solana", to_address |-> "a1", confirmations_required |-> 1,
     status |-> status,
     detected_tx_hash |-> IF status \in {"paid", "confirmed"} THEN "g0" ELSE NULL,
     detected_at |-> NoStamp, confirmed_at |-> NoStamp, reference |-> NULL]

InitSubmit ==
    /\ invoices \in { [i \in 1..Len(r) |-> SubmittedRow(i, r[i])] :
                        r \in UNION { [1..n -> Statuses] : n \in 0..MaxInv } }
    /\ payments = <<>>
    /\ merchants = <<>>
    /\ usage = <<>>
    /\ ledger = <<>>
    /\ hooks = <<>>
    /\ receipts = <<>>
    /\ sweeps = <<>>
    /\ buys = <<>>
    /\ wallets = <<>>
    /\ env = [rpc |-> FALSE, secret |-> TRUE, subs |-> FALSE]
    /\ now = 0
    /\ reads = <<>>
    /\ pays = <<>>
    /\ memoryCache = NoCache
    /\ localStorage = NoCache
    /\ quotes = <<>>
    /\ bills = <<>>

NextSubmit ==
    \/ \E t \in 0..(MaxInv + 1), g \in SubmittedSignatures :
           /\ Len(receipts) < MaxDeliveries
           /\ ReceiptSubmit(t, g)
    \/ \E r \in 1..Len(receipts) : ReceiptUpdate(r)

SpecSubmit == InitSubmit /\ [][NextSubmit]_vars

\* the dashboard asks for prices of differing symbol sets while time passes
NextPrices ==
    \/ \E uniq \in SUBSET PriceSymbols \ {{}}, fails \in BOOLEAN,
          answered \in SUBSET PriceSymbols : GetUsdPrices(uniq, fails, answered)
    \/ Reload
    \/ Tick

SpecPrices == Init /\ [][NextPrices]_vars

\* client receipts and sweeps on a Solana-only deployment: a receipt carries any
\* base58 string, a signature that is final on chain or one that never is
SolanaKinds == {k \in InvoiceKinds : k.network = "solana"}
ReceiptSignatures == {"g0", "g1"}

InitReceipt ==
    /\ Init
    /\ env = [rpc |-> FALSE, secret |-> TRUE, subs |-> FALSE]

NextReceipt ==
    \/ \E m \in Merchants, a \in InvoiceAmounts, k \in SolanaKinds, to \in Addresses :
           InsertInvoice(m, a, k, to)
    \/ \E t \in 1..MaxInv, g \in ReceiptSignatures : ReceiptSubmit(t, g)
    \/ \E r \in 1..Len(receipts) : ReceiptUpdate(r)
    \/ \E batch \in PaidBatches : SweepStart(0, FALSE, batch)
    \/ \E s \in 1..Len(sweeps), f \in BOOLEAN : SweepSolana(s, f)
    \/ \E s \in 1..Len(sweeps), q \in QuoteAnswers : RecordUsageMerchant(s, q)
    \/ \E s \in 1..Len(sweeps) : RecordUsageRead(s)
    \/ \E s \in 1..Len(sweeps) : RecordUsageWrite(s)
    \/ \E s \in 1..Len(sweeps) : RecordUsageLedger(s)

SpecReceipt == InitReceipt /\ [][NextReceipt]_vars

\* repeated sweeps, one at a time, over a backlog: as many paid invoices as one batch
\* holds whose signature never becomes final, and one whose signature is final
Backlog == BatchLimit + 1

InitBacklog ==
    /\ invoices = [i \in 1..Backlog |->
                      PaidBySignature(i, IF i <= BatchLimit THEN "g0" ELSE "g1")]
    /\ payments = <<>>
    /\ merchants = <<>>
    /\ usage = <<>>
    /\ ledger = <<>>
    /\ hooks = <<>>
    /\ receipts = <<>>
    /\ sweeps = <<>>
    /\ buys = <<>>
    /\ wallets = <<>>
    /\ env = [rpc |-> FALSE, secret |-> TRUE, subs |-> FALSE]
    /\ now = 0
    /\ reads = <<>>
    /\ pays = <<>>
    /\ memoryCache = NoCache
    /\ localStorage = NoCache
    /\ quotes = <<>>
    /\ bills = <<>>

\* the response of a sweep has been sent: the invocation is gone
SweepForget(s) ==
    /\ sweeps[s].pc = "done"
    /\ sweeps' = Without(sweeps, s)
    /\ UNCHANGED <<invoices, payments, merchants, usage, ledger, hooks, receipts, buys, wallets, env, now, reads, pays, browser, bills>>

\* the node reports a signature as finalized exactly when it is final on chain
NextBacklog ==
    \/ \E batch \in PaidBatches : sweeps = <<>> /\ SweepStart(0, FALSE, batch)
    \/ \E s \in 1..Len(sweeps) :
           SweepSolana(s, sweeps[s].batch[sweeps[s].idx].detected_tx_hash \in FinalSignatures)
    \/ \E s \in 1..Len(sweeps), q \in QuoteAnswers : RecordUsageMerchant(s, q)
    \/ \E s \in 1..Len(sweeps) : RecordUsageRead(s)
    \/ \E s \in 1..Len(sweeps) : RecordUsageWrite(s)
    \/ \E s \in 1..Len(sweeps) : RecordUsageLedger(s)
    \/ \E s \in 1..Len(sweeps) : SweepForget(s)

\* the scheduler keeps invoking the sweep and every invocation runs to its end
SpecBacklog == InitBacklog /\ [][NextBacklog]_vars /\ WF_vars(NextBacklog)

----
\* Properties

Rank(status) ==
    CASE status = "draft" -> 0
      [] status = "pending" -> 1
      [] status = "paid" -> 2
      [] status = "confirmed" -> 3
      [] OTHER -> 4

LedgerRowsOf(id) == { k \in 1..Len(ledger) : ledger[k].invoice_id = id }

\* C1: no step of any producer moves an invoice's status backward in the order
\* pending < paid < confirmed; a confirmed invoice never changes status.
C1_StatusOnlyMovesForward ==
    [][\A i \in 1..Len(invoices) :
          Rank(invoices'[i].status) >= Rank(invoices[i].status)]_vars

\* C2: when two deliveries both matched the same pending invoice, the update of the
\* second one to write finds the invoice no longer pending and changes nothing.
C2_LoserUpdateIsNoOp ==
    [][\A h \in 1..Len(hooks) :
          ( /\ hooks[h].pc = "update"
            /\ hooks'[h].pc = "done"
            /\ invoices[hooks[h].inv].status \notin MatchableStatuses )
          => invoices' = invoices]_vars

\* C3: a delivery of an event that was already delivered, accepted and completed
\* changes neither the payments table nor the invoices table.
C3_RedeliveryChangesNothing ==
    [][\A h \in 1..Len(hooks) :
          (hooks[h].replay /\ hooks'[h] # hooks[h])
          => (payments' = payments /\ invoices' = invoices)]_vars

\* C4: the update of a client receipt changes nothing when the invoice is not pending
\* at that moment, and otherwise makes it paid with the submitted signature.
C4_ReceiptNoOpUnlessPending ==
    [][\A r \in 1..Len(receipts) :
          (receipts[r].pc = "update" /\ receipts'[r].pc = "done")
          => IF invoices[receipts[r].t].status # "pending"
             THEN invoices' = invoices
             ELSE /\ invoices'[receipts[r].t].status = "paid"
                  /\ invoices'[receipts[r].t].detected_tx_hash = receipts[r].signature]_vars

\* C5: at most one payments_ledger row exists per invoice, whatever the sweeps do.
C5_UsageRecordedAtMostOnce ==
    \A i \in 1..Len(invoices) : Cardinality(LedgerRowsOf(i)) <= 1

Recording(id) ==
    { s \in 1..Len(sweeps) :
        /\ sweeps[s].pc \in {"payments", "usage", "usage_read", "usage_write", "ledger"}
        /\ sweeps[s].batch[sweeps[s].idx].id = id }

\* C7: on a block-confirmation network a sweep promotes a paid invoice only with
\* confirmations = tip - block + 1 >= confirmations_required, and once the promoting
\* sweep has finished with the invoice exactly one ledger row exists for it.
C7_EvmConfirmation ==
    /\ \A s \in 1..Len(sweeps) :
          sweeps[s].pc = "payments" =>
            /\ sweeps[s].confirmations = sweeps[s].tip - sweeps[s].txBlock + 1
            /\ sweeps[s].confirmations >=
                 sweeps[s].batch[sweeps[s].idx].confirmations_required
    /\ \A i \in 1..Len(invoices) :
          ( /\ invoices[i].network \in EvmNetworks
            /\ invoices[i].status = "confirmed"
            /\ Recording(i) = {} )
          => Cardinality(LedgerRowsOf(i)) = 1

\* a request that passed the input validation of buy
ValidRequest(q) == q.m # "" /\ q.a # 0 /\ q.c \in SupportedCurrencies

\* an entitlement check that has read an existing merchant on the base tier whose
\* trial has ended or has no trial end, with the flag on, and has read the usage
BaseTierChecked(q) ==
    /\ q.variant = "buy" /\ ValidRequest(q) /\ env.subs
    /\ q.found /\ q.tier = "basic_50"
    /\ (q.trialEnds = NoStamp \/ q.trialEnds <= q.nowRead)
    /\ q.pc # "usage"

InsertedByBuy == { b \in 1..Len(buys) : buys[b].token # NoInvoice }

\* C8 as stated: on the base tier a request is allowed at gmv_cents = 999,999 and at
\* 1,000,000 or more it is answered with HTTP 402 and code upgrade_required, and no
\* invoice is inserted.
C8_BlockedWith402 ==
    \A b \in 1..Len(buys) :
        BaseTierChecked(buys[b]) =>
          /\ buys[b].gmvCents = 999999 => buys[b].entitlement = "allow"
          /\ buys[b].gmvCents >= 1000000 =>
               /\ buys[b].status = 402
               /\ buys[b].code = "upgrade_required"
               /\ buys[b].token = NoInvoice

\* C8 amended: at 1,000,000 or more the request is blocked with upgrade_required and
\* inserts nothing; the answer is HTTP 402 with the code when no redirect base URL was
\* given and a 302 redirect to <base>/?billing=upgrade_required when one was.
C8_BlockedWithUpgradeRequired ==
    /\ \A b \in 1..Len(buys) :
          BaseTierChecked(buys[b]) =>
            /\ buys[b].gmvCents = 999999 => buys[b].entitlement = "allow"
            /\ buys[b].gmvCents >= 1000000 =>
                 /\ buys[b].entitlement = "upgrade_required"
                 /\ buys[b].pc = "done"
                 /\ buys[b].token = NoInvoice
                 /\ IF buys[b].u = ""
                    THEN buys[b].status = 402 /\ buys[b].code = "upgrade_required"
                    ELSE /\ buys[b].status = 302
                         /\ buys[b].location = "billing=upgrade_required"
    /\ Len(invoices) = Cardinality(InsertedByBuy)

\* a base-tier merchant at exactly 1,000,000 cents was answered 402
C8_Witness ==
    \E b \in 1..Len(buys) :
        /\ BaseTierChecked(buys[b])
        /\ buys[b].gmvCents = 1000000
        /\ buys[b].status = 402

\* the decision table of the claim, on what the check read
EntitlementTable(q) ==
    IF ~env.subs THEN "allow"
    ELSE IF ~q.found THEN "allow"
    ELSE IF q.trialEnds # NoStamp /\ q.nowRead < q.trialEnds THEN "allow"
    ELSE IF q.tier = "pro_100" THEN "allow"
    ELSE IF q.tier \in {"canceled", "past_due"} THEN "entitlement_blocked"
    ELSE IF q.gmvCents >= 1000000 THEN "upgrade_required"
    ELSE "allow"

\* C9: the entitlement decision of every checked request equals the table: flag off,
\* no merchant row, trial not expired and top tier allow; canceled and past_due block
\* with entitlement_blocked; otherwise upgrade_required iff gmv_cents >= 1,000,000.
C9_EntitlementTable ==
    \A b \in 1..Len(buys) :
        (buys[b].variant = "buy" /\ ValidRequest(buys[b]) /\ buys[b].pc # "usage")
        => /\ buys[b].entitlement = EntitlementTable(buys[b])
           /\ buys[b].found = (env.subs /\ buys[b].m \in DOMAIN merchants)
           /\ buys[b].found =>
                /\ buys[b].tier = merchants[buys[b].m].plan_tier
                /\ buys[b].trialEnds = merchants[buys[b].m].trial_ends_at

\* a canceled or past_due merchant still in trial was allowed and got its invoice
C9_Witness ==
    \E b \in 1..Len(buys) :
        /\ buys[b].variant = "buy" /\ buys[b].found
        /\ buys[b].tier \in {"canceled", "past_due"}
        /\ buys[b].nowRead < buys[b].trialEnds
        /\ buys[b].entitlement = "allow"
        /\ buys[b].token # NoInvoice

\* C10: every invoice inserted by buy was inserted by a request whose entitlement
\* check returned allow.
C10_InsertOnlyAfterAllow ==
    /\ \A b \in InsertedByBuy : buys[b].entitlement = "allow"
    /\ Len(invoices) = Cardinality(InsertedByBuy)

\* the machine-readable code a response carries: the code of the 402 body, or the
\* billing parameter of the redirect
CarriedCode(q) ==
    IF q.status = 402 THEN q.code
    ELSE IF q.status = 302 /\ q.location = "billing=upgrade_required" THEN "upgrade_required"
    ELSE ""

\* C11: a request blocked by the entitlement check is answered with the code of its
\* cause (entitlement_blocked for canceled or past_due, upgrade_required at the cap),
\* with and without a redirect base URL.
C11_BlockedCodeMatchesCause ==
    \A b \in 1..Len(buys) :
        buys[b].entitlement \in {"entitlement_blocked", "upgrade_required"}
        => /\ buys[b].pc = "done"
           /\ CarriedCode(buys[b]) = buys[b].entitlement
           /\ buys[b].entitlement = "entitlement_blocked"
                <=> buys[b].tier \in {"canceled", "past_due"}

\* the webhook part of the scenario: a completed delivery of 0.0505 coin for an
\* invoice of 0.05 coin left the invoice paid (or later confirmed) with its hash
PaidByReport ==
    \A h \in 1..Len(hooks) :
        (hooks[h].pc = "done" /\ hooks[h].inv # NoInvoice /\ hooks[h].expected = PaidAmount
           /\ hooks[h].evt.amount = 50500)
        => /\ hooks[h].outcome = "accepted"
           /\ invoices[hooks[h].inv].status \in {"paid", "confirmed"}
           /\ invoices[hooks[h].inv].detected_tx_hash = hooks[h].evt.txHash

\* C12: an invoice for 0.05 ETH becomes paid with the reported hash after a webhook
\* event of 0.0505 ETH, a sweep promotes it only with sufficient confirmations, and
\* once the promoting sweep has finished with it the merchant's usage of the month
\* has been increased by its USD-cents value.
C12_EthEndToEnd ==
    /\ PaidByReport
    /\ \A s \in 1..Len(sweeps) :
          sweeps[s].pc = "payments" =>
            sweeps[s].confirmations >= sweeps[s].batch[sweeps[s].idx].confirmations_required
    /\ \A i \in 1..Len(invoices) :
          ( /\ invoices[i].currency = "ETH"
            /\ invoices[i].status = "confirmed"
            /\ Recording(i) = {} )
          => /\ <<invoices[i].user_id, FirstOfMonth(now)>> \in DOMAIN usage
             /\ usage[<<invoices[i].user_id, FirstOfMonth(now)>>] > 0

\* C13: a delivery whose x-webhook-secret header is missing or differs from the
\* configured secret, and any delivery when no secret is configured, is answered 401
\* before any event is read: it writes no payment row and changes no invoice.
C13_UnauthorizedRejected ==
    /\ [](\A h \in 1..Len(hooks) :
            (~env.secret \/ hooks[h].header # "good")
            => /\ hooks[h].status = 401 /\ hooks[h].pc = "done"
               /\ hooks[h].outcome = "unauthorized"
               /\ hooks[h].events = <<>> /\ hooks[h].log = <<>>
               /\ hooks[h].inv = NoInvoice)
    /\ [][ /\ (Len(hooks') > Len(hooks) /\ hooks'[Len(hooks')].status = 401)
              => (payments' = payments /\ invoices' = invoices)
           /\ \A h \in 1..Len(hooks) :
                hooks[h].status = 401 => hooks'[h] = hooks[h] ]_vars

\* no secret is configured, a pending invoice exists, and a delivery without the
\* header and one with a header were both answered 401
C13_Witness ==
    /\ ~env.secret
    /\ \E i \in 1..Len(invoices) : invoices[i].status = "pending"
    /\ \E h \in 1..Len(hooks) : hooks[h].header = "" /\ hooks[h].status = 401
    /\ \E h \in 1..Len(hooks) : hooks[h].header = "good" /\ hooks[h].status = 401
    /\ payments = <<>>

\* C14: a failed lookup (the chain-tip query, or the receipt query of one invoice)
\* does not abort the sweep: a sweep returns only after it has examined the last
\* invoice of the batch it selected.
C14_FailureDoesNotAbortBatch ==
    [][ /\ \A s \in 1..Len(sweeps) :
             (sweeps[s].pc = "loop" /\ sweeps'[s].pc = "done")
             => sweeps[s].idx = Len(sweeps[s].batch)
        /\ (Len(sweeps') > Len(sweeps) /\ sweeps'[Len(sweeps')].pc = "done")
             => PaidRows = <<>> ]_vars

EventOutcomes == {"ignored", "nomatch", "rejected", "accepted", "threw"}

\* C15: every event of an authorized delivery is processed, whatever happened to the
\* events before it: after an exception or a rejection of event i the loop goes on
\* with event i + 1, and the response is 200 with the number of events of the body.
C15_EventsIndependent ==
    /\ [](\A h \in 1..Len(hooks) :
            hooks[h].status # 401 =>
              /\ \A j \in 1..Len(hooks[h].log) : hooks[h].log[j] \in EventOutcomes
              /\ hooks[h].pc = "done" =>
                   /\ hooks[h].status = 200
                   /\ hooks[h].processed = Len(hooks[h].events)
                   /\ Len(hooks[h].log) = Len(hooks[h].events)
              /\ hooks[h].pc # "done" =>
                   /\ hooks[h].status = 0
                   /\ Len(hooks[h].log) = hooks[h].idx - IF hooks[h].pc = "select" THEN 0 ELSE 1)
    /\ [][\A h \in 1..Len(hooks) :
            /\ (hooks[h].pc \in {"upsert", "update"} /\ hooks'[h].outcome \in {"threw", "rejected"}
                  /\ hooks[h].idx < Len(hooks[h].events))
               => hooks'[h].pc = "select"
            /\ (hooks[h].pc = "select" /\ hooks'[h] # hooks[h])
               => /\ hooks'[h].idx = hooks[h].idx + 1
                  /\ hooks'[h].evt = hooks[h].events[hooks[h].idx + 1] ]_vars

\* a delivery of three events has returned: one threw, one was underpaid, and the
\* last one was accepted and paid its invoice
C15_Witness ==
    \E h \in 1..Len(hooks) :
        /\ hooks[h].pc = "done" /\ hooks[h].status = 200 /\ hooks[h].processed = 3
        /\ "threw" \in {hooks[h].log[j] : j \in 1..2}
        /\ "rejected" \in {hooks[h].log[j] : j \in 1..2}
        /\ hooks[h].log[3] = "accepted"
        /\ invoices[hooks[h].inv].status = "paid"
        /\ invoices[hooks[h].inv].detected_at = h

\* C16: the gmv_cents of a (merchant, month) row never decreases, and the row never
\* disappears, whatever the interleaving of the sweeps that record usage.
C16_UsageNeverDecreases ==
    [][\A key \in DOMAIN usage :
          key \in DOMAIN usage' /\ usage'[key] >= usage[key]]_vars

\* C17: payments_ledger is append-only, and every confirmed invoice has exactly one
\* row in it once the sweep that confirmed it is done with it, also when the usage
\* recording was skipped.
C17_OneLedgerRowPerConfirmed ==
    /\ [][ /\ Len(ledger') >= Len(ledger)
           /\ SubSeq(ledger', 1, Len(ledger)) = ledger ]_vars
    /\ [](\A i \in 1..Len(invoices) :
            (invoices[i].status = "confirmed" /\ Recording(i) = {})
            => Cardinality(LedgerRowsOf(i)) = 1)

\* a sweep is examining invoice id
Visited(id) ==
    \E s \in 1..Len(sweeps) :
        sweeps[s].pc = "loop" /\ sweeps[s].batch[sweeps[s].idx].id = id

\* the invoices of the backlog whose transaction is final on chain
FinalInBacklog == (BatchLimit + 1)..Backlog

\* the tokens of the rows the claim names as siblings of the row that was read
Intent(d) ==
    { j \in 1..Len(invoices) :
        /\ invoices[j].user_id = invoices[d].user_id
        /\ invoices[j].amount = invoices[d].amount
        /\ invoices[j].reference = invoices[d].reference
        /\ invoices[j].status \in {"pending", "paid", "confirmed"} }

SiblingTokens(rd) == { rd.siblings[k].public_token : k \in 1..Len(rd.siblings) }

\* C19: the public read of an invoice returns as siblings exactly the invoices with
\* its merchant, amount and reference (a null reference matching only null
\* references) whose status is pending, paid or confirmed, each once and with its
\* own currency, and the read changes no row.
C19_SiblingsOfIntent ==
    /\ [](\A r \in 1..Len(reads) :
            reads[r].status = 200 =>
              /\ SiblingTokens(reads[r]) = Intent(reads[r].invoice)
              /\ Len(reads[r].siblings) = Cardinality(Intent(reads[r].invoice))
              /\ \A k \in 1..Len(reads[r].siblings) :
                   reads[r].siblings[k].currency =
                       invoices[reads[r].siblings[k].public_token].currency)
    /\ [][invoices' = invoices]_vars

\* three invoices of one intent with no reference, in three currencies and three
\* statuses: the read of the oldest returned all three
C19_Witness ==
    \E r \in 1..Len(reads) :
        /\ reads[r].status = 200 /\ reads[r].invoice = 1
        /\ invoices[1].reference = NULL
        /\ {invoices[j].status : j \in 1..3} = {"pending", "paid", "confirmed"}
        /\ SiblingTokens(reads[r]) = {1, 2, 3}

\* C18: under repeated sweeps an invoice that is paid with a transaction hash is
\* eventually visited by a sweep, and becomes confirmed if its transaction is final
\* on chain, however many paid invoices there are whose transaction never is
\* (stated for the invoices of the backlog whose transaction is final).
C18_EveryPaidInvoiceVisited ==
    \A i \in FinalInBacklog :
        /\ (invoices[i].status = "paid" /\ invoices[i].detected_tx_hash # NULL)
             ~> (Visited(i) \/ invoices[i].status # "paid")
        /\ (invoices[i].status = "paid" /\ invoices[i].detected_tx_hash \in FinalSignatures)
             ~> (invoices[i].status = "confirmed")

\* C20: a request to issue an invoice whose merchant id is missing, whose amount is
\* not a finite positive number, or whose currency is not supported is answered
\* with 400, and no invoice is inserted
FinitePositive(a) == a # NaN /\ a # Infinity /\ a # -Infinity /\ a > 0

RefusedInput(q) == q.m = "" \/ ~FinitePositive(q.a) \/ q.c \notin SupportedCurrencies

C20_InvalidInputRejected ==
    \A b \in 1..Len(buys) :
        RefusedInput(buys[b]) =>
            /\ buys[b].token = NoInvoice
            /\ buys[b].pc = "done" => buys[b].status = 400

\* the quotient of a (millionths of a dollar) by price (cents per coin) rounded half
\* away from zero to 6 decimals, in millionths of a coin
HalfAwayFromZero(a, price) == (2 * a * 100 + price) \div (2 * price)

\* C21: an invoice issued (without the fee) for a USD amount persists the USD amount
\* divided by the quoted price, rounded half away from zero to 6 decimals.
C21_UsdRoundedHalfAway ==
    \A b \in InsertedByBuy :
        (buys[b].variant = "buy" /\ buys[b].usd)
        => invoices[buys[b].token].amount = HalfAwayFromZero(buys[b].a, buys[b].usdPrice)

\* C22: a sweep promotes a paid Solana invoice only when the node reports the
\* signature it read for it as finalized, and records usage only for such an
\* invoice; an invoice whose detected signature is one the chain never reports as
\* finalized is not confirmed.
C22_ConfirmedOnlyIfFinalized ==
    /\ [][\A s \in 1..Len(sweeps) :
            ( /\ sweeps[s].pc = "loop" /\ sweeps'[s] # sweeps[s]
              /\ sweeps[s].batch[sweeps[s].idx].network = "solana" )
            => /\ invoices' # invoices =>
                    /\ sweeps[s].batch[sweeps[s].idx].detected_tx_hash \in FinalSignatures
                    /\ invoices'[sweeps[s].batch[sweeps[s].idx].id].status = "confirmed"
               /\ sweeps'[s].pc = "usage" =>
                    sweeps[s].batch[sweeps[s].idx].detected_tx_hash \in FinalSignatures]_vars
    /\ [](\A i \in 1..Len(invoices) :
            (invoices[i].network = "solana" /\ invoices[i].status = "confirmed")
            => invoices[i].detected_tx_hash \in FinalSignatures)

\* C23: once a request to issue an invoice for merchant m has succeeded or has been
\* blocked by the entitlement check, a merchants row with id m exists; issuance
\* changes no field of a merchants row that existed.
C23_MerchantRowEnsured ==
    /\ [](\A b \in 1..Len(buys) :
            ( /\ buys[b].pc = "done"
              /\ \/ buys[b].token # NoInvoice
                 \/ buys[b].entitlement \in {"entitlement_blocked", "upgrade_required"} )
            => buys[b].m \in DOMAIN merchants)
    /\ [][\A m \in DOMAIN merchants :
            m \in DOMAIN merchants' /\ merchants'[m] = merchants[m]]_vars

\* the invoice a sweep is at
Current(s) == sweeps[s].batch[sweeps[s].idx]

\* a step of sweep s that examines an invoice of a block-confirmation network
ExaminesEvm(s) ==
    /\ sweeps[s].pc = "loop" /\ sweeps'[s] # sweeps[s]
    /\ Current(s).network \in EvmNetworks

\* the step promotes the invoice; the payments update is the next call of the sweep
Promotes(s) ==
    /\ sweeps'[s].pc = "payments"
    /\ invoices'[Current(s).id].status = "confirmed"
    /\ payments' = payments

\* the step writes the counter max(0, tip - block + 1) of some block and does not
\* promote the invoice
CountsOnly(s) ==
    /\ Current(s).id \in sweeps'[s].counted
    /\ invoices' = invoices
    /\ \E block \in 1..MaxTip :
          /\ Max(0, sweeps[s].tip - block + 1) < Current(s).confirmations_required
          /\ payments' = SetConfirmations(Current(s).id, Max(0, sweeps[s].tip - block + 1))

\* the payments update of a promoting sweep writes the counter it computed
CountsAfterPromotion ==
    \A s \in 1..Len(sweeps) :
        (sweeps[s].pc = "payments" /\ sweeps'[s] # sweeps[s])
        => /\ payments' = SetConfirmations(Current(s).id, sweeps[s].confirmations)
           /\ sweeps[s].confirmations = sweeps[s].tip - sweeps[s].txBlock + 1
           /\ Current(s).id \in sweeps'[s].counted

InMinorUnits(amount, decimals) == amount * 10^(decimals - 6)

\* C25: solana-pay changes no invoice, payment, usage or ledger row, whatever the
\* request and the status of the invoice; the transaction it returns holds exactly
\* one transfer, of the invoice's amount in minor units, from the buyer to the
\* invoice's destination address.
C25_BuilderOnlyReads ==
    /\ [][pays' # pays =>
            /\ invoices' = invoices /\ payments' = payments
            /\ merchants' = merchants /\ usage' = usage /\ ledger' = ledger]_vars
    /\ [](\A p \in 1..Len(pays) :
            (pays[p].status = 200 /\ pays[p].buyer # "") =>
              LET ix == pays[p].instructions
                  inv == invoices[pays[p].t]
                  last == ix[Len(ix)]
              IN  /\ Len(ix) >= 1
                  /\ Cardinality({k \in 1..Len(ix) : ix[k].kind = "transfer"}) = 1
                  /\ last.kind = "transfer"
                  /\ last.from = pays[p].buyer
                  /\ last.to = inv.to_address
                  /\ last.minor = InMinorUnits(inv.amount, last.decimals)
                  /\ last.minor > 0)

\* transactions were built for 1.5 SOL of a confirmed invoice and for 1.5 USDC
C25_Witness ==
    \E p \in 1..Len(pays) :
        /\ pays[p].status = 200 /\ pays[p].buyer = "b1"
        /\ invoices[pays[p].t].amount = 1500000
        /\ invoices[pays[p].t].status \in {"confirmed", "expired"}
        /\ pays[p].instructions[Len(pays[p].instructions)].minor \in {1500000000, 1500000}

\* C26: no step of the webhook listener, the client receipt or the sweep removes an
\* invoice row or changes its amount, currency, destination address or merchant.
C26_TermsImmutable ==
    [][\A i \in 1..Len(invoices) :
          /\ i <= Len(invoices')
          /\ invoices'[i].id = invoices[i].id
          /\ invoices'[i].amount = invoices[i].amount
          /\ invoices'[i].currency = invoices[i].currency
          /\ invoices'[i].network = invoices[i].network
          /\ invoices'[i].to_address = invoices[i].to_address
          /\ invoices'[i].user_id = invoices[i].user_id]_vars

\* an invoice reported by the webhook was confirmed by a sweep, and another one was
\* made paid by a client receipt
C26_Witness ==
    /\ \E i \in 1..Len(invoices) :
          /\ invoices[i].status = "confirmed" /\ invoices[i].detected_tx_hash = "h1"
          /\ invoices[i].detected_at # NoStamp /\ invoices[i].confirmed_at # NoStamp
    /\ \E i \in 1..Len(invoices) :
          invoices[i].status = "paid" /\ invoices[i].detected_tx_hash = "g1"

\* C27: when recordUsage skips an invoice for lack of a quote, the invoice stays
\* confirmed and neither merchant_usage_monthly nor payments_ledger changes; an
\* invoice in USDC or USDT is never skipped: its usage is recorded at 1.00 USD per
\* coin whatever the quote service answers.
C27_MissingQuoteSkipsUsage ==
    [][\A s \in 1..Len(sweeps) :
          (sweeps[s].pc = "usage" /\ sweeps'[s] # sweeps[s]) =>
            IF sweeps'[s].pc = "usage_read"
            THEN Current(s).currency \in PinnedSymbols
                   => sweeps'[s].usdCents = UsdCents(Current(s).amount, 100)
            ELSE /\ Current(s).currency \notin PinnedSymbols
                 /\ usage' = usage /\ ledger' = ledger /\ merchants' = merchants
                 /\ invoices' = invoices
                 /\ invoices[Current(s).id].status = "confirmed"]_vars

\* the sweeps are done: an invoice in SOL is confirmed without a ledger row, and one
\* in USDC or USDT is confirmed with a ledger row of 100 cents
C27_Witness ==
    /\ \A s \in 1..Len(sweeps) : sweeps[s].pc = "done"
    /\ \E i \in 1..Len(invoices) :
          /\ invoices[i].currency = "SOL" /\ invoices[i].status = "confirmed"
          /\ LedgerRowsOf(i) = {}
    /\ \E i \in 1..Len(invoices), k \in 1..Len(ledger) :
          /\ invoices[i].currency \in PinnedSymbols /\ invoices[i].status = "confirmed"
          /\ ledger[k].invoice_id = i /\ ledger[k].amount_usd_cents = 100

\* C28: a price that getUsdPrices returns without fetching it in the same call was
\* given by the quote service at most 30 seconds before that call.
C28_CachedPriceFresh ==
    \A q \in 1..Len(quotes) : \A sym \in DOMAIN quotes[q].prices :
        (quotes[q].at - quotes[q].prices[sym]) * TickMs <= TTL_MS

\* the step in which issuance b returns
Returns(b) == buys'[b].pc = "done" /\ (b > Len(buys) \/ buys[b].pc # "done")

\* the returning step of a successful issuance appends one pending row with the
\* merchant's wallet address and answers with the row's token
InsertsOneRow(b) ==
    LET q == buys'[b]
        key == <<q.m, q.c>>
    IN /\ Len(invoices') = Len(invoices) + 1
       /\ SubSeq(invoices', 1, Len(invoices)) = invoices
       /\ q.token = Len(invoices')
       /\ invoices'[q.token].status = "pending"
       /\ invoices'[q.token].user_id = q.m
       /\ invoices'[q.token].currency = q.c
       /\ key \in DOMAIN wallets
       /\ invoices'[q.token].to_address = wallets[key]
       /\ q.status = IF q.u = "" THEN 200 ELSE 302

\* a failed issuance answers 400, 402, 500 or 502, or redirects to the upgrade page
FailsWithoutRow(b) ==
    /\ invoices' = invoices
    /\ \/ buys'[b].status \in {400, 402, 500, 502}
       \/ buys'[b].status = 302 /\ buys'[b].location = "billing=upgrade_required"

SameDestination(i, evt) ==
    /\ invoices[i].to_address = evt.to
    /\ invoices[i].currency = evt.currency
    /\ invoices[i].network = evt.network

Open(i) == invoices[i].status \in {"pending", "draft"}

\* C30: the listener takes the most recently created pending or draft invoice with
\* the event's address, currency and network (never one that is paid, confirmed or
\* expired); when the amount fails the tolerance test against that invoice the
\* delivery is over and writes nothing, whatever older invoices would accept; rows
\* are written only by a delivery that accepted, and only for the invoice it took.
C30_NewestOpenInvoiceOnly ==
    /\ [][Len(hooks') > Len(hooks) =>
            LET h == hooks'[Len(hooks')]
                evt == h.evt
            IN /\ invoices' = invoices /\ payments' = payments
               /\ h.inv # NoInvoice =>
                     /\ SameDestination(h.inv, evt) /\ Open(h.inv)
                     /\ \A j \in 1..Len(invoices) :
                           (j > h.inv /\ SameDestination(j, evt)) => ~Open(j)
               /\ h.inv = NoInvoice =>
                     \A j \in 1..Len(invoices) : ~(SameDestination(j, evt) /\ Open(j))
               /\ (h.inv # NoInvoice /\ ~Accepts(evt.amount, invoices[h.inv].amount))
                     => h.pc = "done" /\ h.outcome = "rejected"]_vars
    /\ [][\A h \in 1..Len(hooks) :
            /\ hooks[h].pc = "done" => hooks'[h] = hooks[h]
            /\ hooks'[h] # hooks[h] =>
                  /\ hooks[h].outcome = "accepted"
                  /\ \A j \in 1..Len(invoices) :
                        invoices'[j] # invoices[j] => j = hooks[h].inv
                  /\ \A k \in 1..Len(payments') :
                        (k > Len(payments) \/ payments'[k] # payments[k])
                          => payments'[k].invoice_id = hooks[h].inv]_vars
    /\ [][(invoices' # invoices \/ payments' # payments) =>
            \E h \in 1..Len(hooks) : hooks'[h] # hooks[h]]_vars

\* a transfer of half a coin was rejected against the newest open invoice, for a
\* coin, while an older pending invoice for half a coin stays pending and unpaid
C30_Witness ==
    \E h \in 1..Len(hooks), i \in 1..Len(invoices) :
        /\ hooks[h].pc = "done" /\ hooks[h].outcome = "rejected"
        /\ hooks[h].inv > i
        /\ SameDestination(i, hooks[h].evt)
        /\ invoices[i].status = "pending"
        /\ Accepts(hooks[h].evt.amount, invoices[i].amount)
        /\ payments = <<>>

\* C31: no two payments rows have the same tx_hash; the upsert of an accepted event
\* without a hash appends a row and leaves every other row as it was, so two such
\* events give two rows.
C31_OnePaymentPerHash ==
    /\ [](\A j, k \in 1..Len(payments) :
            payments[j].tx_hash = payments[k].tx_hash => j = k)
    /\ [][\A h \in 1..Len(hooks) :
            (hooks[h].pc = "upsert" /\ hooks'[h].pc # "upsert" /\ hooks[h].evt.txHash = "")
              => /\ Len(payments') = Len(payments) + 1
                 /\ SubSeq(payments', 1, Len(payments)) = payments
                 /\ payments'[Len(payments')].invoice_id = hooks[h].inv]_vars

\* two deliveries without a hash were accepted and are done, and each has its row
C31_Witness ==
    \E g, h \in 1..Len(hooks) :
        /\ g # h
        /\ hooks[g].pc = "done" /\ hooks[g].outcome = "accepted" /\ hooks[g].evt.txHash = ""
        /\ hooks[h].pc = "done" /\ hooks[h].outcome = "accepted" /\ hooks[h].evt.txHash = ""
        /\ Len(payments) = 2
        /\ payments[1].tx_hash # payments[2].tx_hash

\* C32: the usage write of a recordUsage call changes exactly the row of the
\* invoice's merchant and of the month the call took from the clock, to the row's
\* previous value (0 if absent) plus the cents of the invoice, and touches no other
\* row; its ledger insert appends exactly one row with the same cents.
C32_OneUsageRowAdvanced ==
    [][\A s \in 1..Len(sweeps) :
          /\ (sweeps[s].pc = "usage_read" /\ sweeps'[s].pc = "usage_write")
                => sweeps'[s].monthStr = FirstOfMonth(now)
          /\ (sweeps[s].pc = "usage_write" /\ sweeps'[s].pc = "ledger") =>
                LET key == <<Current(s).user_id, sweeps[s].monthStr>>
                    prev == IF key \in DOMAIN usage THEN usage[key] ELSE 0
                IN /\ DOMAIN usage' = DOMAIN usage \cup {key}
                   /\ usage'[key] = prev + sweeps[s].usdCents
                   /\ \A k \in DOMAIN usage \ {key} : usage'[k] = usage[k]
                   /\ ledger' = ledger
          /\ (sweeps[s].pc = "ledger" /\ sweeps'[s].pc # "ledger") =>
                /\ Len(ledger') = Len(ledger) + 1
                /\ SubSeq(ledger', 1, Len(ledger)) = ledger
                /\ ledger'[Len(ledger')].amount_usd_cents = sweeps[s].usdCents
                /\ ledger'[Len(ledger')].merchant_id = Current(s).user_id
                /\ usage' = usage]_vars

\* a string of 32 to 100 characters, all of the base58 alphabet
WellFormedSignature(v) ==
    /\ SignatureShape[v].len \in 32..100
    /\ SignatureShape[v].chars \cap {"0", "O", "I", "l"} = {}

\* C33: a receipt whose token is not a UUID or whose signature is not a base58
\* string of 32 to 100 characters is answered 400, one whose token matches no
\* invoice 404; such a request is over at once and modifies no invoice, and every
\* change of an invoice comes from a receipt that was not refused.
C33_MalformedReceiptRejected ==
    /\ [][Len(receipts') > Len(receipts) =>
            LET r == receipts'[Len(receipts')]
            IN /\ invoices' = invoices
               /\ (r.t = 0 \/ ~WellFormedSignature(r.signature))
                     => r.status = 400 /\ r.pc = "done"
               /\ (r.t # 0 /\ WellFormedSignature(r.signature)
                            /\ r.t \notin 1..Len(invoices))
                     => r.status = 404 /\ r.pc = "done"
               /\ (r.t \in 1..Len(invoices) /\ WellFormedSignature(r.signature))
                     => r.status \notin {400, 404}]_vars
    /\ [][invoices' # invoices =>
            \E r \in 1..Len(receipts) :
                /\ receipts[r].pc = "update" /\ receipts'[r].pc = "done"
                /\ receipts[r].t \in 1..Len(invoices)
                /\ WellFormedSignature(receipts[r].signature)]_vars
    /\ [][\A r \in 1..Len(receipts) :
            receipts[r].status \in {400, 404} => receipts'[r] = receipts[r]]_vars

\* receipts with a signature of 31 characters and one with a foreign character were
\* answered 400, or an unknown token 404, next to a receipt that marked its invoice
\* paid
C33_Witness ==
    \E q, r \in 1..Len(receipts) :
        /\ receipts[q].status = 400
        /\ receipts[q].t \in 1..Len(invoices)
        /\ receipts[q].signature \in {"s31", "s101", "zero", "letterO", "letterl", ""}
        /\ invoices[receipts[q].t].status = "pending"
        /\ receipts[r].status = 200 /\ receipts[r].signature = "s32"
        /\ invoices[receipts[r].t].detected_tx_hash = "s32"

\* the amount of the request in coins: converted and rounded when it came in USD
CryptoAmount(q) == IF q.usd THEN UsdToCrypto(q.a, q.usdPrice) ELSE q.a

\* C34: an invoice issued with the fee persists the crypto amount times 1.01 rounded
\* to 6 decimals, that is a multiple of a millionth nearest to that product; it is
\* never below the crypto amount, and without the fee it is the crypto amount.
C34_FeeAddedToTotal ==
    \A b \in InsertedByBuy :
        LET crypto == CryptoAmount(buys[b])
            amount == invoices[buys[b].token].amount
        IN IF buys[b].variant = "fee"
           THEN /\ 100 * amount - 101 * crypto \in -50..50
                /\ amount >= crypto
           ELSE amount = crypto

\* an invoice with the fee for 0.00015 coin persists 0.000151: the product lies
\* halfway between two millionths and the Number that holds it below
C34_Witness ==
    \E b \in InsertedByBuy :
        /\ buys[b].variant = "fee"
        /\ ~buys[b].usd /\ buys[b].a = 150
        /\ invoices[buys[b].token].amount = 151

----
\* billing-webhook and create-subscription: the writers of a merchant's subscription
\* fields

SubscriptionStatuses ==
    {"trialing", "active", "incomplete", "past_due", "unpaid", "canceled",
     "incomplete_expired"}

\* the ids of the subscription's price: the one of PRICE_PRO_100, the one of
\* PRICE_BASIC_50, any other
PriceIds == {"price_pro", "price_basic", "price_other"}

PriceToTier(priceId) ==
    IF priceId = "price_pro" THEN "pro_100"
    ELSE IF priceId = "price_basic" THEN "basic_50"
    ELSE "NULL"

\* planTier of a customer.subscription.* event
PlanTierOf(status, priceId) ==
    LET byPrice == PriceToTier(priceId)
        trialing == IF status = "trialing" /\ byPrice = "NULL" THEN "basic_50" ELSE byPrice
        active == IF status = "active" /\ trialing = "NULL" THEN "basic_50" ELSE trialing
        pastDue == IF status = "past_due" \/ status = "unpaid" THEN "past_due" ELSE active
    IN  IF status = "canceled" \/ status = "incomplete_expired" THEN "canceled" ELSE pastDue

\* the signed events Stripe sends about the subscription sub1 of the customer cus1,
\* which create-subscription made for the merchant m1 with trial_period_days, so
\* that the subscription carries its trial_end
StripeEvents ==
    [type : {"customer.subscription.updated"}, customer : {"cus1"},
     subscription : {"sub1"}, merchant_id : {"m1"}, status : SubscriptionStatuses,
     price : PriceIds, trial_end : {1}]
    \cup
    [type : {"checkout.session.completed", "invoice.paid", "invoice.payment_failed"},
     customer : {"cus1"}, subscription : {"sub1"}, merchant_id : {"m1"}, status : {""},
     price : {""}, trial_end : {NoStamp}]

\* the parameters the handler's switch passes to upsertMerchantState
StateParams(evt) ==
    [merchantId |-> IF evt.type = "checkout.session.completed" THEN evt.merchant_id ELSE "",
     stripeCustomerId |-> evt.customer,
     stripeSubscriptionId |-> evt.subscription,
     planTier |-> IF evt.type = "customer.subscription.updated"
                  THEN PlanTierOf(evt.status, evt.price)
                  ELSE IF evt.type = "invoice.payment_failed" THEN "past_due"
                  ELSE "NULL",
     trialEndsAt |-> evt.trial_end]

\* select('id').eq('stripe_customer_id', c).maybeSingle(): no row, or more than one
\* row (an error the code does not read), leaves data null
ResolveByCustomer(c) ==
    LET found == {m \in DOMAIN merchants : merchants[m].stripe_customer_id = c}
    IN  IF Cardinality(found) = 1 THEN CHOOSE m \in found : TRUE ELSE ""

\* crypto.randomUUID() of invocation b
RandomUUID(b) == "uuid" \o ToString(b)

\* the row upsertMerchantState builds: only the columns it was given
StateRow(p) ==
    (IF p.stripeCustomerId # "" THEN [stripe_customer_id |-> p.stripeCustomerId] ELSE <<>>)
    @@ (IF p.stripeSubscriptionId # "" THEN [stripe_subscription_id |-> p.stripeSubscriptionId]
        ELSE <<>>)
    @@ (IF p.planTier # "NULL" THEN [plan_tier |-> p.planTier] ELSE <<>>)
    @@ (IF p.trialEndsAt # NoStamp THEN [trial_ends_at |-> p.trialEndsAt] ELSE <<>>)

\* merchants.upsert(row, { onConflict: 'id' }): the columns given are written, the
\* others keep their value, or get their default in a new row
UpsertMerchant(id, row) ==
    LET old == IF id \in DOMAIN merchants THEN merchants[id] ELSE DefaultMerchant
    IN  (id :> [c \in DOMAIN old |-> IF c \in DOMAIN row THEN row[c] ELSE old[c]])
        @@ merchants

NoEvent ==
    [type |-> "", customer |-> "", subscription |-> "", merchant_id |-> "", status |-> "",
     price |-> "", trial_end |-> NoStamp]

\* an invocation that has returned: its locals are gone
Answered(bill) ==
    [fn |-> bill.fn, pc |-> "done", evt |-> NoEvent, id |-> "", customerId |-> ""]

\* Stripe has the subscription once create-subscription has called
\* stripe.subscriptions.create
Subscribed ==
    \E b \in 1..Len(bills) :
        bills[b].fn = "create-subscription" /\ bills[b].pc \in {"upsert", "done"}

\* create-subscription: the upsert that ensures the merchant's row
SubscribeEnsure(merchantId) ==
    /\ \A b \in 1..Len(bills) : bills[b].fn # "create-subscription"
    /\ merchants' = EnsureMerchant(merchantId)
    /\ bills' = Append(bills, [fn |-> "create-subscription", pc |-> "select",
                               evt |-> NoEvent, id |-> merchantId, customerId |-> ""])
    /\ UNCHANGED <<invoices, payments, usage, ledger, hooks, receipts, sweeps, buys,
                   wallets, env, now, reads, pays, browser>>

\* create-subscription: the select of the merchant's customer, then Stripe's calls
SubscribeSelect(b) ==
    /\ bills[b].fn = "create-subscription"
    /\ bills[b].pc = "select"
    /\ LET known == IF bills[b].id \in DOMAIN merchants
                    THEN merchants[bills[b].id].stripe_customer_id ELSE ""
       IN bills' = [bills EXCEPT ![b] =
              [@ EXCEPT !.pc = "upsert",
                        !.customerId = IF known # "" THEN known ELSE "cus1"]]
    /\ UNCHANGED <<invoices, payments, merchants, usage, ledger, hooks, receipts, sweeps,
                   buys, wallets, env, now, reads, pays, browser>>

\* create-subscription: the upsert of the subscription's fields; trial_period_days
\* makes subscription.trial_end a stamp
SubscribeUpsert(b) ==
    /\ bills[b].fn = "create-subscription"
    /\ bills[b].pc = "upsert"
    /\ merchants' = UpsertMerchant(bills[b].id,
           [stripe_customer_id |-> bills[b].customerId, stripe_subscription_id |-> "sub1",
            plan_tier |-> "trial", trial_ends_at |-> 1])
    /\ bills' = [bills EXCEPT ![b] = Answered(@)]
    /\ UNCHANGED <<invoices, payments, usage, ledger, hooks, receipts, sweeps, buys,
                   wallets, env, now, reads, pays, browser>>

\* billing-webhook: the handler up to and including the select of upsertMerchantState;
\* the deliveries are taken one after the other
WebhookReceive(evt) ==
    /\ Subscribed
    /\ \A w \in 1..Len(bills) : bills[w].fn = "billing-webhook" => bills[w].pc = "done"
    /\ Cardinality({b \in 1..Len(bills) : bills[b].fn = "billing-webhook"}) < MaxDeliveries
    /\ LET p == StateParams(evt)
           b == Len(bills) + 1
           resolved == IF p.merchantId # "" THEN p.merchantId
                       ELSE ResolveByCustomer(p.stripeCustomerId)
       IN bills' = Append(bills, [fn |-> "billing-webhook", pc |-> "upsert", evt |-> evt,
                                  id |-> IF resolved # "" THEN resolved ELSE RandomUUID(b),
                                  customerId |-> p.stripeCustomerId])
    /\ UNCHANGED <<invoices, payments, merchants, usage, ledger, hooks, receipts, sweeps,
                   buys, wallets, env, now, reads, pays, browser>>

\* billing-webhook: the upsert of upsertMerchantState
WebhookUpsert(b) ==
    /\ bills[b].fn = "billing-webhook"
    /\ bills[b].pc = "upsert"
    /\ merchants' = UpsertMerchant(bills[b].id, StateRow(StateParams(bills[b].evt)))
    /\ bills' = [bills EXCEPT ![b] = Answered(@)]
    /\ UNCHANGED <<invoices, payments, usage, ledger, hooks, receipts, sweeps, buys,
                   wallets, env, now, reads, pays, browser>>

\* a merchant with a wallet and one paid Solana invoice, subscriptions enforced
InitBilling ==
    /\ invoices = <<PaidBySignature(1, "g1")>>
    /\ payments = <<>>
    /\ merchants \in {<<>>, ("m1" :> DefaultMerchant)}
    /\ usage = <<>>
    /\ ledger = <<>>
    /\ hooks = <<>>
    /\ receipts = <<>>
    /\ sweeps = <<>>
    /\ buys = <<>>
    /\ wallets = (<<"m1", "USDC">> :> "a1")
    /\ env \in [rpc : {FALSE}, secret : {TRUE}, subs : {TRUE}]
    /\ now = 0
    /\ reads = <<>>
    /\ pays = <<>>
    /\ memoryCache = NoCache
    /\ localStorage = NoCache
    /\ quotes = <<>>
    /\ bills = <<>>

\* the billing functions beside one sweep and one issuance
NextBilling ==
    \/ SubscribeEnsure("m1")
    \/ \E b \in 1..Len(bills) : SubscribeSelect(b)
    \/ \E b \in 1..Len(bills) : SubscribeUpsert(b)
    \/ \E evt \in StripeEvents : WebhookReceive(evt)
    \/ \E b \in 1..Len(bills) : WebhookUpsert(b)
    \/ \E batch \in PaidBatches :
           /\ sweeps = <<>>
           /\ SweepStart(0, FALSE, batch)
    \/ \E s \in 1..Len(sweeps) : SweepSolana(s, TRUE)
    \/ \E s \in 1..Len(sweeps) : RecordUsageMerchant(s, 0)
    \/ \E s \in 1..Len(sweeps) : RecordUsageRead(s)
    \/ \E s \in 1..Len(sweeps) : RecordUsageWrite(s)
    \/ \E s \in 1..Len(sweeps) : RecordUsageLedger(s)
    \/ \E req \in {q \in BuyRequests : q.variant = "buy" /\ q.m = "m1" /\ q.a = Coin
                                        /\ q.c = "USDC" /\ q.u = "" /\ ~q.usd} :
           BuyStart(req)
    \/ \E b \in 1..Len(buys) : BuyUsage(b)
    \/ \E b \in 1..Len(buys) : BuyWallet(b)
    \/ \E b \in 1..Len(buys) : BuyInsert(b, 0, FALSE)

SpecBilling == InitBilling /\ [][NextBilling]_vars

\* delivery b of the billing webhook finishes with a subscription event of one of
\* the statuses
SubscriptionEventDone(b, statuses) ==
    /\ bills[b].fn = "billing-webhook"
    /\ bills[b].pc = "upsert"
    /\ bills'[b].pc = "done"
    /\ bills[b].evt.type = "customer.subscription.updated"
    /\ bills[b].evt.status \in statuses

\* the rows that existed keep every subscription field
MerchantsKept ==
    \A m \in DOMAIN merchants : m \in DOMAIN merchants' /\ merchants'[m] = merchants[m]

\* C35: a step of a sweep or of issuance changes no subscription field of a
\* merchants row that existed; when the billing webhook has handled a subscription
\* event with status past_due or unpaid, the plan_tier of the merchant the
\* subscription was made for is past_due, and with status canceled or
\* incomplete_expired it is canceled, whatever the price of the subscription.
C35_SubscriptionFieldsOwned ==
    /\ [][(sweeps' # sweeps \/ buys' # buys) => MerchantsKept]_vars
    /\ [][\A b \in 1..Len(bills) :
            SubscriptionEventDone(b, {"past_due", "unpaid"})
            => merchants'[bills[b].evt.merchant_id].plan_tier = "past_due"]_vars
    /\ [][\A b \in 1..Len(bills) :
            SubscriptionEventDone(b, {"canceled", "incomplete_expired"})
            => merchants'[bills[b].evt.merchant_id].plan_tier = "canceled"]_vars

\* C36: every invoice in status paid has a detected_tx_hash that is not null.
C36_PaidHasHash ==
    \A i \in 1..Len(invoices) :
        invoices[i].status = "paid" => invoices[i].detected_tx_hash # NULL

\* C37: an invoice that is paid or confirmed keeps its detected_tx_hash and its
\* detected_at in every step.
C37_DetectionWrittenOnce ==
    [][\A i \in 1..Len(invoices) :
        invoices[i].status \in {"paid", "confirmed"}
        => /\ invoices'[i].detected_tx_hash = invoices[i].detected_tx_hash
           /\ invoices'[i].detected_at = invoices[i].detected_at]_vars

\* a step in which a webhook delivery does its payments upsert
UpsertStep == \E h \in 1..Len(hooks) : hooks[h].pc = "upsert" /\ hooks'[h].pc # "upsert"

\* C38: a payments row keeps its tx_hash and its invoice_id in every step, and the
\* payments upsert of a webhook delivery does not lower its confirmations.
C38_PaymentRowStable ==
    [][\A k \in 1..Len(payments) :
        \E j \in 1..Len(payments') :
            /\ payments'[j].tx_hash = payments[k].tx_hash
            /\ payments'[j].invoice_id = payments[k].invoice_id
            /\ UpsertStep => payments'[j].confirmations >= payments[k].confirmations]_vars

\* the amount_usd_cents of the first k ledger rows of merchant m that were appended
\* in the month
RECURSIVE LedgerCents(_, _, _)
LedgerCents(m, month, k) ==
    IF k = 0 THEN 0
    ELSE LedgerCents(m, month, k - 1)
         + (IF ledger[k].merchant_id = m /\ FirstOfMonth(ledger[k].created_at) = month
            THEN ledger[k].amount_usd_cents ELSE 0)

GmvCents(m, month) == IF <<m, month>> \in DOMAIN usage THEN usage[<<m, month>>] ELSE 0

\* C39: whenever no recordUsage call stands between its usage write and its ledger
\* insert, the gmv_cents of every merchant and month equals the sum of the
\* amount_usd_cents of the ledger rows appended for that merchant in that month.
C39_UsageMatchesLedger ==
    (\A s \in 1..Len(sweeps) : sweeps[s].pc # "ledger")
    => \A m \in Merchants, t \in 0..MaxNow :
           GmvCents(m, FirstOfMonth(t)) = LedgerCents(m, FirstOfMonth(t), Len(ledger))

\* C40: a confirmed_at that has been written is never written again, and an invoice
\* becomes confirmed only from status paid.
C40_ConfirmedAtWrittenOnce ==
    [][\A i \in 1..Len(invoices) :
        /\ invoices[i].confirmed_at # NoStamp
           => invoices'[i].confirmed_at = invoices[i].confirmed_at
        /\ (invoices[i].status # "confirmed" /\ invoices'[i].status = "confirmed")
           => invoices[i].status = "paid"]_vars
====
